---- MODULE Spec2Model ----
(***************************************************************************)
(* A model of the traffic capture engine of the mirrord agent:             *)
(*   - TcpMirrorApi::Passthrough, the multiplexer of captured connections  *)
(*     (mirrord/agent/src/mirror.rs);                                      *)
(*   - IpTablesRedirector, the NAT-rule redirection backend                *)
(*     (mirrord/agent/src/incoming/iptables.rs).                           *)
(* SpecMirror runs the multiplexer, SpecMirrorFair its recv() under fair   *)
(* scheduling, SpecIpt the rule operations of the redirection backend,     *)
(* SpecAccept its next_connection().                                       *)
(* Modelled with it:                                                       *)
(*   - MirrordExecution::start_internal (mirrord/cli/src/execution.rs),    *)
(*     run by SpecExec, and get_remote_env, run by SpecRemoteEnv;          *)
(*   - LayerConfig::encode and decode (mirrord/config/src/lib.rs), run by  *)
(*     SpecCodec;                                                          *)
(*   - TcpMirrorApi::Sniffer (mirrord/agent/src/mirror.rs), run by         *)
(*     SpecSniffer;                                                        *)
(*   - DirEntryInternal::get_d_reclen64 (mirrord/protocol/src/file.rs),    *)
(*     run by SpecDirEntry.                                                *)
(***************************************************************************)
EXTENDS Integers, Sequences, FiniteSets, TLC

VARIABLES
    \* ---- TcpMirrorApi::Passthrough (mirror.rs:28-34) ----
    mirror_handle,        \* ports the MirrorHandle mirrors
    incoming_streams,     \* StreamMap<ConnectionId, IncomingStream>
    protocol_version,     \* ClientProtocolVersion
    connection_ids_iter,  \* RangeInclusive<ConnectionId>: [start, exhausted]
    queued_messages,      \* VecDeque<DaemonTcp>
    \* ---- observation of the calls made on the multiplexer ----
    last,                 \* the last call: "none", "recv", "pending", or the
                          \* LayerTcp message handle_client_message() took
    polled,               \* what that call consumed, when it was a recv()
    ret,                  \* what that call returned
    owed,                 \* the id whose failure the last recv() reported
    announced,            \* ids of the announcements returned, in order
    closes,               \* per id: Close messages returned
    late,                 \* per id: a message returned after the id's Close
    early,                \* per id: a message returned before its announcement
    progress,             \* per id: how far the messages returned have come
    unsubscribed,         \* announced ids whose ConnectionUnsubscribe returned
    \* ---- IpTablesRedirector (iptables.rs:21-41) ----
    iptables,             \* Option<SafeIpTables>: "None" or "Some"
    ipv6,                 \* the address family of this redirector
    with_mesh_exclusion,  \* Option<u16>: NoPort or the agent's port
    rules,                \* kernel NAT table: family -> port -> redirect rules
    exclusions,           \* kernel NAT table: family -> exclusion rules
    ipt_op,               \* the last call made on the redirector
    ipt_ret,              \* what it returned
    ipt_errors,           \* the kernel operations that failed during it
    ipt_prev,             \* the call before it, and what that returned
    installed,            \* ports whose add_redirection has returned Ok
    was_cleaned,          \* cleanup() has been called on this redirector
    ipt_failed,           \* a kernel operation has failed during some call
    \* ---- IpTablesRedirector::next_connection (iptables.rs:166-201) ----
    listener,             \* TcpListener: the sockets waiting to be accepted
    connected,            \* how many connections the listener has received
    next_pc,              \* next_connection(): "idle" or "accepting"
    next_ret,             \* what the last next_connection() returned
    next_dropped,         \* the sockets that call has dropped
    \* ---- MirrordExecution::start_internal (execution.rs:183-340) ----
    exec_pc,              \* how far start_internal has come
    config,               \* the LayerConfig fields start_internal reads
    connect_info,         \* AgentConnectInfo returned by create_and_connect
    connection,           \* the ClientMessages sent to the agent, in order
    agent_reply,          \* what the agent answered to SwitchProtocolVersion
    exec_ret,             \* what start_internal returned
    \* ---- LayerConfig::encode / decode (config/src/lib.rs:404-423) ----
    codec_pc,             \* "resolved", "encoded" or "decoded"
    resolved_config,      \* the LayerConfig given to encode
    encoded_config,       \* what encode returned
    decoded_config,       \* what decode returned for it
    \* ---- MirrordExecution::get_remote_env (execution.rs:553-605) ----
    env_pc,               \* "called", "receiving" or "returned"
    env_sent,             \* the ClientMessages it has sent, in order
    env_received,         \* what connection.receiver.recv() has yielded
    env_ret,              \* what get_remote_env returned
    \* ---- TcpMirrorApi::Sniffer (mirror.rs:35-41) ----
    queued_message,       \* Option<DaemonTcp>
    api,                  \* what TcpSnifferApi::recv has yielded, in order
    sniffer_polled,       \* the last recv() polled the api; the slot then
    sniffer_ret,          \* what the last recv() returned
    sniffer_out,          \* the DaemonTcp messages recv() returned, in order
    \* ---- DirEntryInternal (protocol/src/file.rs:234-298) ----
    overflow_checks,      \* the build panics on arithmetic overflow
    dirent_call,          \* the function called and its argument
    dirent_ret            \* what it returned

mirror_vars ==
    << mirror_handle, incoming_streams, protocol_version, connection_ids_iter,
       queued_messages, last, polled, ret, owed, announced, closes, late, early,
       progress, unsubscribed >>

ipt_vars ==
    << iptables, ipv6, with_mesh_exclusion, rules, exclusions, ipt_op, ipt_ret,
       ipt_errors, ipt_prev, installed, was_cleaned, ipt_failed >>

accept_vars == << listener, connected, next_pc, next_ret, next_dropped >>

exec_vars ==
    << exec_pc, config, connect_info, connection, agent_reply, exec_ret >>

codec_vars == << codec_pc, resolved_config, encoded_config, decoded_config >>

remote_env_vars == << env_pc, env_sent, env_received, env_ret >>

sniffer_vars ==
    << queued_message, api, sniffer_polled, sniffer_ret, sniffer_out >>

dirent_vars == << overflow_checks, dirent_call, dirent_ret >>

side_vars == << remote_env_vars, sniffer_vars, dirent_vars >>

\* What the Passthrough multiplexer and the redirector leave alone.
cli_vars == << exec_vars, codec_vars, side_vars >>

vars == << mirror_vars, ipt_vars, accept_vars, cli_vars >>

----------------------------------------------------------------------------
(* Bounds of the model. *)

\* ConnectionId::MAX, scaled down: the ids are 0..MaxConnId.
MaxConnId == 1

\* The most SubscribeResult messages waiting in the outbound queue.
MaxQueue == 1

\* The most connections the listener of the redirector receives.
MaxConnected == 4

ConnIds == 0 .. MaxConnId

NoId == 0 - 1

\* The ports of the scenario of two subscriptions.
Ports == {80, 443}

NoPort == 0

----------------------------------------------------------------------------
(* ClientProtocolVersion and MODE_AGNOSTIC_HTTP_REQUESTS. *)

\* Versions by rank: the last release before the gate and the release of
\* the gate.
Versions == 1 .. 2

\* The first release that satisfies MODE_AGNOSTIC_HTTP_REQUESTS.
ModeAgnosticMin == 2

\* ClientProtocolVersion::matches(&MODE_AGNOSTIC_HTTP_REQUESTS)
Matches(version) ==
    version >= ModeAgnosticMin

----------------------------------------------------------------------------
(* Messages: DaemonMessage, with DaemonTcp flattened into it. *)

BlankMessage ==
    [ kind |-> "None", id |-> NoId, port |-> NoPort, transport |-> "none",
      bytes |-> "none", is_last |-> FALSE, request_id |-> NoId,
      level |-> "none" ]

\* Constant RequestId of every mirrored HTTP request.
REQUEST_ID == 0

SubscribeResultOk(port) ==
    [BlankMessage EXCEPT !.kind = "SubscribeResult", !.port = port]

Data(id, bytes) ==
    [BlankMessage EXCEPT !.kind = "Data", !.id = id, !.bytes = bytes]

\* ChunkedRequestBodyV1; bytes tells whether frames holds a frame ("some")
\* or none ("empty").
ChunkedBody(id, frames, is_last) ==
    [BlankMessage EXCEPT !.kind = "ChunkedRequestBodyV1", !.id = id,
                         !.bytes = frames, !.is_last = is_last,
                         !.request_id = REQUEST_ID]

Close(id) ==
    [BlankMessage EXCEPT !.kind = "Close", !.id = id]

\* LogMessage; id is the connection the text names (NoId when it names none).
Log(level, id) ==
    [BlankMessage EXCEPT !.kind = "LogMessage", !.level = level, !.id = id]

\* IncomingTrafficTransportType from tcp.info.tls_connector
Transport(tls) ==
    IF tls THEN "Tls" ELSE "Tcp"

NewConnectionV1(id, port) ==
    [BlankMessage EXCEPT !.kind = "NewConnectionV1", !.id = id, !.port = port]

NewConnectionV2(id, port, tls) ==
    [BlankMessage EXCEPT !.kind = "NewConnectionV2", !.id = id, !.port = port,
                         !.transport = Transport(tls)]

ChunkedStartV2(id, port, tls, body_finished) ==
    [BlankMessage EXCEPT !.kind = "ChunkedRequestStartV2", !.id = id,
                         !.port = port, !.transport = Transport(tls),
                         !.is_last = body_finished,
                         !.request_id = REQUEST_ID]

\* Err(AgentError::...) returned by recv() or handle_client_message()
Failure(error) ==
    [BlankMessage EXCEPT !.kind = "Err", !.level = error]

\* Ok(()) returned by handle_client_message()
Done ==
    [BlankMessage EXCEPT !.kind = "Ok"]

AnnouncementKinds ==
    {"NewConnectionV1", "NewConnectionV2", "ChunkedRequestStartV2"}

ChunkedKinds ==
    {"ChunkedRequestStartV2", "ChunkedRequestBodyV1"}

\* Messages of a connection that follow its announcement.
EventKinds ==
    {"Data", "ChunkedRequestBodyV1", "Close"}

----------------------------------------------------------------------------
(* IncomingStream: the events of one captured connection or HTTP request.  *)
(* A stream is open, half (its data or body has ended) or done (it has     *)
(* yielded Finished and yields nothing more).                              *)

NoStream == [kind |-> "none", phase |-> "none"]

Stream(kind, phase) == [kind |-> kind, phase |-> phase]

StreamStates ==
    {NoStream} \cup
    {Stream(k, p) : k \in {"tcp", "http"}, p \in {"open", "half", "done"}}

\* IncomingStreamItem values a stream can yield next.
ReadyItems(stream) ==
    CASE stream.phase = "open" /\ stream.kind = "tcp" ->
            {"Data", "NoMoreData", "FinishedOk", "FinishedErr"}
      [] stream.phase = "open" /\ stream.kind = "http" ->
            {"Frame", "NoMoreFrames", "FinishedOk", "FinishedErr"}
      [] stream.phase = "half" -> {"FinishedOk", "FinishedErr"}
      [] OTHER -> {}

\* The stream after it has yielded item.
AfterItem(stream, item) ==
    CASE item \in {"Data", "Frame"} -> stream
      [] item \in {"NoMoreData", "NoMoreFrames"} -> Stream(stream.kind, "half")
      [] OTHER -> Stream(stream.kind, "done")

\* Keys of the StreamMap.
Keys(streams) == {id \in ConnIds : streams[id] # NoStream}

\* Keys whose stream is exhausted: StreamMap drops such an entry when a poll
\* visits it.
Exhausted(streams) == {id \in ConnIds : streams[id].phase = "done"}

\* StreamMap with the entries of `dropped` removed
Remove(streams, dropped) ==
    [id \in ConnIds |-> IF id \in dropped THEN NoStream ELSE streams[id]]

\* StreamMap::insert
Insert(streams, id, stream) ==
    [streams EXCEPT ![id] = stream]

----------------------------------------------------------------------------
(* connection_ids_iter: 0..=ConnectionId::MAX as an iterator.              *)

IdsInit == [start |-> 0, exhausted |-> FALSE]

\* Faulty variant of IdsNext: the iterator is never advanced.
IdsNextNoAdvance(iter) ==
    [some |-> TRUE, id |-> iter.start, iter |-> iter]

\* Faulty variant of IdsNext: a counter that wraps to 0 after its last value.
IdsNextWrapping(iter) ==
    [some |-> TRUE, id |-> iter.start,
     iter |-> [iter EXCEPT !.start = (iter.start + 1) % (MaxConnId + 1),
                           !.exhausted = iter.start = MaxConnId]]

\* RangeInclusive::next: None once the last value has been yielded.
IdsNext(iter) ==
    IF iter.exhausted \/ iter.start > MaxConnId
    THEN [some |-> FALSE, id |-> NoId, iter |-> iter]
    ELSE IF iter.start < MaxConnId
    THEN [some |-> TRUE, id |-> iter.start,
          iter |-> [iter EXCEPT !.start = iter.start + 1]]
    ELSE [some |-> TRUE, id |-> iter.start,
          iter |-> [iter EXCEPT !.exhausted = TRUE]]

----------------------------------------------------------------------------
(* MirroredTraffic: what mirror_handle.next() yields.                      *)

Traffic(kind, port, tls, body_finished) ==
    [kind |-> kind, port |-> port, tls |-> tls, body_finished |-> body_finished]

\* Some(Ok(MirroredTraffic::Tcp | Http)) on a mirrored port, or Some(Err(..)).
TrafficOn(ports) ==
    {Traffic(k, p, t, b) : k \in {"Tcp", "Http"}, p \in ports,
                           t \in BOOLEAN, b \in BOOLEAN}
    \cup {Traffic("Err", NoPort, FALSE, FALSE)}

----------------------------------------------------------------------------
(* TcpMirrorApi::recv, Passthrough variant: its three sources.             *)

\* Faulty variant of PopFront: the newest message is taken.
PopBack(queue) ==
    [message |-> queue[Len(queue)], queue |-> SubSeq(queue, 1, Len(queue) - 1)]

\* queued_messages.pop_front()
PopFront(queue) ==
    [message |-> Head(queue), queue |-> Tail(queue)]

\* Both outcomes of a select! arm of incoming_streams.next().
Emitted(message, queue) == [ret |-> message, queue |-> queue]

\* Faulty variant of OnFinishedOk: the Close is returned and queued as well.
OnFinishedOkAlsoQueued(id, queue) ==
    Emitted(Close(id), Append(queue, Close(id)))

\* IncomingStreamItem::Finished(Ok(())): the Close is returned directly.
OnFinishedOk(id, queue) ==
    Emitted(Close(id), queue)

\* Faulty variant of OnFinishedErr: the error of the connection is returned
\* as the error of recv().
OnFinishedErrFails(id, queue) ==
    Emitted(Failure("Connection"), queue)

\* Faulty variant of OnFinishedErr: the warning is returned, no Close queued.
OnFinishedErrNoClose(id, queue) ==
    Emitted(Log("warn", id), queue)

\* IncomingStreamItem::Finished(Err(error)): the Close is queued and the
\* warning returned.
OnFinishedErr(id, queue) ==
    Emitted(Log("warn", id), Append(queue, Close(id)))

\* Faulty variant of OnData: the bytes are left out of the message.
OnDataWithoutBytes(id, queue) ==
    Emitted(Data(id, "empty"), queue)

\* IncomingStreamItem::Data(data): TcpData with the bytes.
OnData(id, queue) ==
    Emitted(Data(id, "some"), queue)

\* Faulty variant of OnNoMoreData: the end of the data closes the
\* connection.
OnNoMoreDataCloses(id, queue) ==
    Emitted(Close(id), queue)

\* IncomingStreamItem::NoMoreData: TcpData with no bytes.
OnNoMoreData(id, queue) ==
    Emitted(Data(id, "empty"), queue)

\* Faulty variant of OnFrame: the chunk carries a request id counted from
\* the connection id.
OnFrameOwnRequestId(id, queue) ==
    Emitted([ChunkedBody(id, "some", FALSE) EXCEPT !.request_id = id + 1],
            queue)

\* IncomingStreamItem::Frame(frame): a body chunk with the frame, not last.
OnFrame(id, queue) ==
    Emitted(ChunkedBody(id, "some", FALSE), queue)

\* Faulty variant of OnNoMoreFrames: the chunk is not marked as the last.
OnNoMoreFramesNotLast(id, queue) ==
    Emitted(ChunkedBody(id, "empty", FALSE), queue)

\* IncomingStreamItem::NoMoreFrames: a body chunk with no frame, last.
OnNoMoreFrames(id, queue) ==
    Emitted(ChunkedBody(id, "empty", TRUE), queue)

\* The select! arm of incoming_streams.next(): the message for `item` of
\* connection `id`, and the queue after it.
OnStreamItem(id, item, queue) ==
    CASE item = "Data" -> OnData(id, queue)
      [] item = "NoMoreData" -> OnNoMoreData(id, queue)
      [] item = "Frame" -> OnFrame(id, queue)
      [] item = "NoMoreFrames" -> OnNoMoreFrames(id, queue)
      [] item = "FinishedOk" -> OnFinishedOk(id, queue)
      [] item = "FinishedErr" -> OnFinishedErr(id, queue)

\* The outcome of a select! arm of mirror_handle.next() that adds no stream.
NoInsert(message, iter) ==
    [ret |-> message, insert |-> FALSE, id |-> NoId, stream |-> NoStream,
     iter |-> iter]

\* Faulty variant of Announce: the stream is inserted under another key
\* than the id announced.
AnnounceUnderOtherKey(message, id, stream, iter) ==
    [ret |-> message, insert |-> TRUE, id |-> (id + 1) % (MaxConnId + 1),
     stream |-> stream, iter |-> iter]

\* The outcome that announces connection `id` and inserts its stream.
Announce(message, id, stream, iter) ==
    [ret |-> message, insert |-> TRUE, id |-> id, stream |-> stream,
     iter |-> iter]

\* connection_ids_iter.next().ok_or(AgentError::ExhaustedConnectionId)?
IdExhausted(next) ==
    NoInsert(Failure("ExhaustedConnectionId"), next.iter)

\* Faulty variant of OnTcp: the unified announcement is tagged Tcp whatever
\* tls_connector holds.
OnTcpDropsTls(traffic, version, iter) ==
    LET next == IdsNext(iter)
    IN  IF Matches(version)
        THEN IF ~next.some THEN IdExhausted(next)
             ELSE Announce(NewConnectionV2(next.id, traffic.port, FALSE),
                           next.id, Stream("tcp", "open"), next.iter)
        ELSE IF traffic.tls THEN NoInsert(Log("error", NoId), iter)
             ELSE IF ~next.some THEN IdExhausted(next)
             ELSE Announce(NewConnectionV1(next.id, traffic.port),
                           next.id, Stream("tcp", "open"), next.iter)

\* Faulty variant of OnTcp: a TLS connection is announced in the legacy
\* shape, which has no place for its transport.
OnTcpTlsAsV1(traffic, version, iter) ==
    LET next == IdsNext(iter)
    IN  IF ~next.some THEN IdExhausted(next)
        ELSE IF Matches(version)
        THEN Announce(NewConnectionV2(next.id, traffic.port, traffic.tls),
                      next.id, Stream("tcp", "open"), next.iter)
        ELSE Announce(NewConnectionV1(next.id, traffic.port),
                      next.id, Stream("tcp", "open"), next.iter)

\* Faulty variant of OnTcp: a TLS connection the client's version cannot
\* represent makes recv() return Err.
OnTcpTlsFails(traffic, version, iter) ==
    LET next == IdsNext(iter)
    IN  IF Matches(version)
        THEN IF ~next.some THEN IdExhausted(next)
             ELSE Announce(NewConnectionV2(next.id, traffic.port, traffic.tls),
                           next.id, Stream("tcp", "open"), next.iter)
        ELSE IF traffic.tls THEN NoInsert(Failure("Protocol"), iter)
             ELSE IF ~next.some THEN IdExhausted(next)
             ELSE Announce(NewConnectionV1(next.id, traffic.port),
                           next.id, Stream("tcp", "open"), next.iter)

\* MirroredTraffic::Tcp: both arms.
OnTcp(traffic, version, iter) ==
    LET next == IdsNext(iter)
    IN  IF Matches(version)
        THEN IF ~next.some THEN IdExhausted(next)
             ELSE Announce(NewConnectionV2(next.id, traffic.port, traffic.tls),
                           next.id, Stream("tcp", "open"), next.iter)
        ELSE IF traffic.tls THEN NoInsert(Log("error", NoId), iter)
             ELSE IF ~next.some THEN IdExhausted(next)
             ELSE Announce(NewConnectionV1(next.id, traffic.port),
                           next.id, Stream("tcp", "open"), next.iter)

\* Faulty variant of OnHttp: the request is announced whatever the version.
OnHttpUngated(traffic, version, iter) ==
    LET next == IdsNext(iter)
    IN  IF ~next.some THEN IdExhausted(next)
        ELSE Announce(ChunkedStartV2(next.id, traffic.port, traffic.tls,
                                     traffic.body_finished),
                      next.id,
                      Stream("http", IF traffic.body_finished
                                     THEN "half" ELSE "open"),
                      next.iter)

\* Faulty variant of OnHttp: the id is drawn before the version is looked
\* at, so a request that is dropped has used one up.
OnHttpDrawsFirst(traffic, version, iter) ==
    LET next == IdsNext(iter)
    IN  IF ~next.some THEN IdExhausted(next)
        ELSE IF Matches(version)
        THEN Announce(ChunkedStartV2(next.id, traffic.port, traffic.tls,
                                     traffic.body_finished),
                      next.id,
                      Stream("http", IF traffic.body_finished
                                     THEN "half" ELSE "open"),
                      next.iter)
        ELSE NoInsert(Log("error", NoId), next.iter)

\* MirroredTraffic::Http: both arms. The stream of a request whose head
\* already holds the whole body has no frames left to yield.
OnHttp(traffic, version, iter) ==
    LET next == IdsNext(iter)
    IN  IF Matches(version)
        THEN IF ~next.some THEN IdExhausted(next)
             ELSE Announce(ChunkedStartV2(next.id, traffic.port, traffic.tls,
                                          traffic.body_finished),
                           next.id,
                           Stream("http", IF traffic.body_finished
                                          THEN "half" ELSE "open"),
                           next.iter)
        ELSE NoInsert(Log("error", NoId), iter)

\* The select! arm of mirror_handle.next(): the message for `traffic` under
\* the client's `version`, the stream to insert and the iterator afterwards.
\* An Err of the mirror handle is returned by the ? operator.
OnTraffic(traffic, version, iter) ==
    CASE traffic.kind = "Err" -> NoInsert(Failure("Backend"), iter)
      [] traffic.kind = "Tcp" -> OnTcp(traffic, version, iter)
      [] traffic.kind = "Http" -> OnHttp(traffic, version, iter)

----------------------------------------------------------------------------
(* What the client has seen: updated on every message recv() returns.      *)

Seen(id) == \E i \in 1 .. Len(announced) : announced[i] = id

\* How far the messages of a connection have come once `message` is
\* returned for it: "none" before its announcement, "open" while its data or
\* body goes on, "ended" after the end-of-data marker or the chunk with
\* is_last, "broken" when a message came out of that order.
Advance(before, message) ==
    CASE message.kind \in AnnouncementKinds ->
            IF before # "none" THEN "broken"
            ELSE IF message.is_last THEN "ended" ELSE "open"
      [] message.kind \in {"Data", "ChunkedRequestBodyV1"} ->
            IF before # "open" THEN "broken"
            ELSE IF message.is_last
                    \/ (message.kind = "Data" /\ message.bytes = "empty")
            THEN "ended" ELSE "open"
      [] OTHER -> before

Observe(message) ==
    /\ announced' =
        IF message.kind \in AnnouncementKinds /\ Len(announced) <= MaxConnId + 1
        THEN Append(announced, message.id)
        ELSE announced
    /\ closes' =
        [id \in ConnIds |->
            IF message.kind = "Close" /\ message.id = id /\ closes[id] < 2
            THEN closes[id] + 1
            ELSE closes[id]]
    /\ late' =
        [id \in ConnIds |->
            late[id] \/ ( /\ message.kind \in AnnouncementKinds \cup EventKinds
                          /\ message.id = id
                          /\ closes[id] > 0 )]
    /\ early' =
        [id \in ConnIds |->
            early[id] \/ ( /\ message.kind \in EventKinds
                           /\ message.id = id
                           /\ ~Seen(id) )]
    /\ owed' =
        IF message.kind = "LogMessage" /\ message.level = "warn"
        THEN message.id
        ELSE NoId
    /\ progress' =
        [id \in ConnIds |->
            IF message.id = id THEN Advance(progress[id], message)
            ELSE progress[id]]
    /\ UNCHANGED unsubscribed

Polled(src, id, item, tls, port) ==
    [src |-> src, id |-> id, item |-> item, tls |-> tls, port |-> port]

----------------------------------------------------------------------------
(* The multiplexer's operations.                                           *)

\* Faulty variant of MayPoll: the select! runs whatever the queue holds.
MayPollAlways(queue) == TRUE

\* recv() polls the streams and the mirror handle only when pop_front()
\* found the queue empty.
MayPoll(queue) == queue = <<>>

\* Faulty variant of SelectTakesTraffic: a `biased;` select! polls its
\* branches in order, the mirror handle only when no stream has an item.
SelectTakesTrafficBiased(streams) ==
    \A id \in ConnIds : ReadyItems(streams[id]) = {}

\* The select! of recv() is not `biased;`: it starts at a branch chosen at
\* random, so the branch of the mirror handle can be taken whatever the
\* streams hold.
SelectTakesTraffic(streams) == TRUE

\* recv() with a queued message: it is returned and nothing else happens.
RecvQueued ==
    /\ queued_messages # <<>>
    /\ LET pop == PopFront(queued_messages)
       IN  /\ queued_messages' = pop.queue
           /\ ret' = pop.message
           /\ Observe(pop.message)
    /\ polled' = Polled("queue", NoId, "none", FALSE, NoPort)
    /\ last' = "recv"
    /\ UNCHANGED << mirror_handle, incoming_streams, protocol_version,
                    connection_ids_iter >>
    /\ UNCHANGED ipt_vars
    /\ UNCHANGED accept_vars
    /\ UNCHANGED cli_vars

\* recv() whose select! takes an item of connection `id`; the poll of the
\* StreamMap dropped the exhausted streams it visited first.
RecvStream(id, item, dropped) ==
    /\ MayPoll(queued_messages)
    /\ id \in Keys(incoming_streams)
    /\ item \in ReadyItems(incoming_streams[id])
    /\ dropped \subseteq Exhausted(incoming_streams)
    /\ LET out == OnStreamItem(id, item, queued_messages)
       IN  /\ queued_messages' = out.queue
           /\ ret' = out.ret
           /\ Observe(out.ret)
    /\ incoming_streams' =
        [Remove(incoming_streams, dropped) EXCEPT ![id] = AfterItem(@, item)]
    /\ polled' = Polled("stream", id, item, FALSE, NoPort)
    /\ last' = "recv"
    /\ UNCHANGED << mirror_handle, protocol_version, connection_ids_iter >>
    /\ UNCHANGED ipt_vars
    /\ UNCHANGED accept_vars
    /\ UNCHANGED cli_vars

\* recv() whose select! takes new traffic of the mirror handle; the StreamMap
\* was polled before it (all exhausted streams dropped) or not at all.
RecvTraffic(traffic, dropped) ==
    /\ MayPoll(queued_messages)
    /\ SelectTakesTraffic(incoming_streams)
    /\ traffic \in TrafficOn(mirror_handle)
    /\ dropped \in {{}, Exhausted(incoming_streams)}
    /\ LET out == OnTraffic(traffic, protocol_version, connection_ids_iter)
           kept == Remove(incoming_streams, dropped)
       IN  /\ incoming_streams' =
                IF out.insert THEN Insert(kept, out.id, out.stream) ELSE kept
           /\ connection_ids_iter' = out.iter
           /\ ret' = out.ret
           /\ Observe(out.ret)
    /\ polled' = Polled("traffic", NoId, traffic.kind, traffic.tls, traffic.port)
    /\ last' = "recv"
    /\ UNCHANGED << mirror_handle, protocol_version, queued_messages >>
    /\ UNCHANGED ipt_vars
    /\ UNCHANGED accept_vars
    /\ UNCHANGED cli_vars

\* recv() polled with nothing ready and dropped by its caller: the poll of
\* the StreamMap dropped every exhausted stream, nothing was returned.
RecvPending ==
    /\ MayPoll(queued_messages)
    /\ Exhausted(incoming_streams) # {}
    /\ incoming_streams' = Remove(incoming_streams, Exhausted(incoming_streams))
    /\ last' = "pending"
    /\ polled' = Polled("none", NoId, "none", FALSE, NoPort)
    /\ ret' = BlankMessage
    /\ UNCHANGED << mirror_handle, protocol_version, connection_ids_iter,
                    queued_messages, owed, announced, closes, late, early,
                    progress, unsubscribed >>
    /\ UNCHANGED ipt_vars
    /\ UNCHANGED accept_vars
    /\ UNCHANGED cli_vars

\* handle_client_message(message) returned `result`: the client has seen
\* nothing new.
Handled(message, result) ==
    /\ last' = message
    /\ polled' = Polled("none", NoId, "none", FALSE, NoPort)
    /\ ret' = result
    /\ UNCHANGED << owed, announced, closes, late, early, progress >>

\* Faulty variant of Unsubscribed: every stream is removed.
UnsubscribedAll(streams, id) == Remove(streams, ConnIds)

\* incoming_streams.remove(&id)
Unsubscribed(streams, id) == Remove(streams, {id})

\* handle_client_message(LayerTcp::ConnectionUnsubscribe(id))
ConnectionUnsubscribe(id) ==
    /\ incoming_streams' = Unsubscribed(incoming_streams, id)
    /\ Handled("ConnectionUnsubscribe", Done)
    /\ unsubscribed' = IF Seen(id) THEN unsubscribed \cup {id} ELSE unsubscribed
    /\ UNCHANGED << mirror_handle, protocol_version, connection_ids_iter,
                    queued_messages >>
    /\ UNCHANGED ipt_vars
    /\ UNCHANGED accept_vars
    /\ UNCHANGED cli_vars

\* SubscribeResult messages waiting in the queue.
Subscribed(queue) ==
    Cardinality({i \in 1 .. Len(queue) : queue[i].kind = "SubscribeResult"})

\* Faulty variant of PortSubscribe: the subscription is made and nothing
\* is queued for the client.
PortSubscribeNoResult(port, ok) ==
    /\ Subscribed(queued_messages) < MaxQueue
    /\ IF ok
       THEN /\ mirror_handle' = mirror_handle \cup {port}
            /\ Handled("PortSubscribe", Done)
       ELSE /\ Handled("PortSubscribe", Failure("Mirror"))
            /\ UNCHANGED mirror_handle
    /\ UNCHANGED << incoming_streams, protocol_version, connection_ids_iter,
                    queued_messages, unsubscribed >>
    /\ UNCHANGED ipt_vars
    /\ UNCHANGED accept_vars
    /\ UNCHANGED cli_vars

\* Faulty variant of PortSubscribe: a failed mirror(port) is reported to
\* the client through the queue as well.
PortSubscribeQueuesFailure(port, ok) ==
    /\ Subscribed(queued_messages) < MaxQueue
    /\ mirror_handle' = IF ok THEN mirror_handle \cup {port} ELSE mirror_handle
    /\ queued_messages' = Append(queued_messages, SubscribeResultOk(port))
    /\ Handled("PortSubscribe", IF ok THEN Done ELSE Failure("Mirror"))
    /\ UNCHANGED << incoming_streams, protocol_version, connection_ids_iter,
                    unsubscribed >>
    /\ UNCHANGED ipt_vars
    /\ UNCHANGED accept_vars
    /\ UNCHANGED cli_vars

\* handle_client_message(LayerTcp::PortSubscribe(port)); mirror(port) fails
\* when ~ok, and the ? returns its error before anything is queued.
PortSubscribe(port, ok) ==
    /\ Subscribed(queued_messages) < MaxQueue
    /\ IF ok
       THEN /\ mirror_handle' = mirror_handle \cup {port}
            /\ queued_messages' =
                Append(queued_messages, SubscribeResultOk(port))
            /\ Handled("PortSubscribe", Done)
       ELSE /\ Handled("PortSubscribe", Failure("Mirror"))
            /\ UNCHANGED << mirror_handle, queued_messages >>
    /\ UNCHANGED << incoming_streams, protocol_version, connection_ids_iter,
                    unsubscribed >>
    /\ UNCHANGED ipt_vars
    /\ UNCHANGED accept_vars
    /\ UNCHANGED cli_vars

\* Faulty variant of PortUnsubscribe: the connections captured so far are
\* dropped with the port.
PortUnsubscribeDropsStreams(port) ==
    /\ mirror_handle' = mirror_handle \ {port}
    /\ incoming_streams' = Remove(incoming_streams, ConnIds)
    /\ Handled("PortUnsubscribe", Done)
    /\ UNCHANGED << protocol_version, connection_ids_iter, queued_messages,
                    unsubscribed >>
    /\ UNCHANGED ipt_vars
    /\ UNCHANGED accept_vars
    /\ UNCHANGED cli_vars

\* handle_client_message(LayerTcp::PortUnsubscribe(port))
PortUnsubscribe(port) ==
    /\ mirror_handle' = mirror_handle \ {port}
    /\ Handled("PortUnsubscribe", Done)
    /\ UNCHANGED << incoming_streams, protocol_version, connection_ids_iter,
                    queued_messages, unsubscribed >>
    /\ UNCHANGED ipt_vars
    /\ UNCHANGED accept_vars
    /\ UNCHANGED cli_vars

----------------------------------------------------------------------------
(* The multiplexer's specification.                                        *)

\* TcpMirrorApi::passthrough(mirror_handle, protocol_version)
MirrorNew(version) ==
    /\ mirror_handle = {}
    /\ incoming_streams = [id \in ConnIds |-> NoStream]
    /\ protocol_version = version
    /\ connection_ids_iter = IdsInit
    /\ queued_messages = <<>>
    /\ last = "none"
    /\ polled = Polled("none", NoId, "none", FALSE, NoPort)
    /\ ret = BlankMessage
    /\ owed = NoId
    /\ announced = <<>>
    /\ closes = [id \in ConnIds |-> 0]
    /\ late = [id \in ConnIds |-> FALSE]
    /\ early = [id \in ConnIds |-> FALSE]
    /\ progress = [id \in ConnIds |-> "none"]
    /\ unsubscribed = {}

----------------------------------------------------------------------------
(* SafeIpTables: the rule-table context of one address family, and the     *)
(* kernel rules it manages. An operation that has to change the kernel     *)
(* table can fail; it then returns its error and changes nothing.          *)

\* The longest run of exclusion rules left behind by failed removals.
MaxExclusions == 2

\* Port of the redirector's listener (redirect_to).
RedirectTo == 40000

\* The agent's own port, when with_mesh_exclusion is Some.
AgentPort == 61337

RulePorts == Ports \cup {RedirectTo}

NoRules == [port \in RulePorts |-> 0]

Outcome(table, result) == [table |-> table, ret |-> result]

\* SafeIpTables::add_redirect: a port has at most one rule, re-adding is a
\* no-op.
AddRedirect(table, from_port, fail) ==
    IF table[from_port] > 0 THEN Outcome(table, "Ok")
    ELSE IF fail THEN Outcome(table, "Err")
    ELSE Outcome([table EXCEPT ![from_port] = 1], "Ok")

\* SafeIpTables::remove_redirect: removing a rule that is not there is a
\* no-op.
RemoveRedirect(table, from_port, fail) ==
    IF table[from_port] = 0 THEN Outcome(table, "Ok")
    ELSE IF fail THEN Outcome(table, "Err")
    ELSE Outcome([table EXCEPT ![from_port] = 0], "Ok")

\* SafeIpTables::cleanup: removes every rule of the context.
CleanupRules(table, fail) ==
    IF fail THEN Outcome(table, "Err") ELSE Outcome(NoRules, "Ok")

\* exclusion.add_exclusion(port): appends the rule.
AddExclusion(count, fail) ==
    IF fail THEN Outcome(count, "Err") ELSE Outcome(count + 1, "Ok")

\* exclusion.remove_exclusion(port): deletes one such rule.
RemoveExclusion(count, fail) ==
    IF fail \/ count = 0 THEN Outcome(count, "Err") ELSE Outcome(count - 1, "Ok")

----------------------------------------------------------------------------
(* IpTablesRedirector. Its state, as the operations below take it:         *)
(*   [iptables, rules, exclusions], rules and exclusions being those of    *)
(*   the redirector's own family.                                          *)
(* The faults of a call are [create, exclusion, rule]: whether creating    *)
(* the context, changing the exclusion rule, changing the redirect rules   *)
(* would fail. A result carries the errors that did occur.                 *)

Faults(create, exclusion, rule) ==
    [create |-> create, exclusion |-> exclusion, rule |-> rule]

AllFaults == {Faults(c, e, r) : c \in BOOLEAN, e \in BOOLEAN, r \in BOOLEAN}

Result(state, result, errors) ==
    [state |-> state, ret |-> result, errors |-> errors]

\* The errors of a kernel operation that returned `result`.
ErrorOf(what, result) == IF result = "Err" THEN {what} ELSE {}

\* Faulty variant of InitIptables: a context is stored although creating
\* it failed.
InitIptablesStoresFailed(state, mesh, faults) ==
    IF faults.create
    THEN Result([state EXCEPT !.iptables = "Some"], "Err", {"create"})
    ELSE IF mesh # NoPort
    THEN LET added == AddExclusion(state.exclusions, faults.exclusion)
         IN  Result([state EXCEPT !.iptables = "Some",
                                  !.exclusions = added.table],
                    "Ok", ErrorOf("exclusion", added.ret))
    ELSE Result([state EXCEPT !.iptables = "Some"], "Ok", {})

\* Faulty variant of InitIptables: a failure to add the exclusion is
\* returned.
InitIptablesStrict(state, mesh, faults) ==
    IF faults.create THEN Result(state, "Err", {"create"})
    ELSE IF mesh # NoPort
    THEN LET added == AddExclusion(state.exclusions, faults.exclusion)
         IN  IF added.ret = "Err"
             THEN Result(state, "Err", {"exclusion"})
             ELSE Result([state EXCEPT !.iptables = "Some",
                                       !.exclusions = added.table], "Ok", {})
    ELSE Result([state EXCEPT !.iptables = "Some"], "Ok", {})

\* IpTablesRedirector::init_iptables: a failure to create the context is
\* returned, a failure to add the exclusion is logged.
InitIptables(state, mesh, faults) ==
    IF faults.create THEN Result(state, "Err", {"create"})
    ELSE IF mesh # NoPort
    THEN LET added == AddExclusion(state.exclusions, faults.exclusion)
         IN  Result([state EXCEPT !.iptables = "Some",
                                  !.exclusions = added.table],
                    "Ok", ErrorOf("exclusion", added.ret))
    ELSE Result([state EXCEPT !.iptables = "Some"], "Ok", {})

\* Faulty variant of Initialize: an existing context is not looked at.
InitializeAlways(state, mesh, faults) ==
    IF mesh # NoPort
    THEN InitIptables(state, mesh, faults)
    ELSE Result(state, "Ok", {})

\* PortRedirector::initialize
Initialize(state, mesh, faults) ==
    IF state.iptables = "None" /\ mesh # NoPort
    THEN InitIptables(state, mesh, faults)
    ELSE Result(state, "Ok", {})

\* Faulty variant of AddRedirection: no context is created on demand.
AddRedirectionNoInit(state, mesh, from_port, faults) ==
    IF state.iptables = "Some"
    THEN LET added == AddRedirect(state.rules, from_port, faults.rule)
         IN  Result([state EXCEPT !.rules = added.table], added.ret,
                    ErrorOf("rule", added.ret))
    ELSE Result(state, "Ok", {})

\* Faulty variant of AddRedirection: init_iptables runs on every call.
AddRedirectionAlwaysInit(state, mesh, from_port, faults) ==
    LET init == InitIptables(state, mesh, faults)
    IN  IF init.ret = "Err" THEN init
        ELSE LET added == AddRedirect(init.state.rules, from_port, faults.rule)
             IN  Result([init.state EXCEPT !.rules = added.table], added.ret,
                        init.errors \cup ErrorOf("rule", added.ret))

\* PortRedirector::add_redirection
AddRedirection(state, mesh, from_port, faults) ==
    LET init == IF state.iptables = "None"
                THEN InitIptables(state, mesh, faults)
                ELSE Result(state, "Ok", {})
    IN  IF init.ret = "Err" THEN init
        ELSE IF init.state.iptables = "Some"
        THEN LET added == AddRedirect(init.state.rules, from_port, faults.rule)
             IN  Result([init.state EXCEPT !.rules = added.table], added.ret,
                        init.errors \cup ErrorOf("rule", added.ret))
        ELSE Result(init.state, "Ok", init.errors)

\* Faulty variant of RemoveRedirection: the ports of the rule are swapped.
RemoveRedirectionSwapped(state, from_port, faults) ==
    IF state.iptables = "Some"
    THEN LET removed == RemoveRedirect(state.rules, RedirectTo, faults.rule)
         IN  Result([state EXCEPT !.rules = removed.table], removed.ret,
                    ErrorOf("rule", removed.ret))
    ELSE Result(state, "Ok", {})

\* Faulty variant of RemoveRedirection: a missing context is created on
\* demand, as add_redirection does.
RemoveRedirectionOnDemand(state, from_port, faults) ==
    LET init == IF state.iptables = "None"
                THEN InitIptables(state, NoPort, faults)
                ELSE Result(state, "Ok", {})
    IN  IF init.ret = "Err" THEN init
        ELSE LET removed == RemoveRedirect(init.state.rules, from_port,
                                           faults.rule)
             IN  Result([init.state EXCEPT !.rules = removed.table],
                        removed.ret, ErrorOf("rule", removed.ret))

\* PortRedirector::remove_redirection
RemoveRedirection(state, from_port, faults) ==
    IF state.iptables = "Some"
    THEN LET removed == RemoveRedirect(state.rules, from_port, faults.rule)
         IN  Result([state EXCEPT !.rules = removed.table], removed.ret,
                    ErrorOf("rule", removed.ret))
    ELSE Result(state, "Ok", {})

\* Faulty variant of Cleanup: the exclusion rule is left in the table.
CleanupNoExclusion(state, mesh, faults) ==
    IF state.iptables = "Some"
    THEN LET taken == [state EXCEPT !.iptables = "None"]
             cleaned == CleanupRules(state.rules, faults.rule)
         IN  Result([taken EXCEPT !.rules = cleaned.table],
                    cleaned.ret, ErrorOf("rule", cleaned.ret))
    ELSE Result(state, "Ok", {})

\* Faulty variant of Cleanup: the context is borrowed, not taken.
CleanupKeepsContext(state, mesh, faults) ==
    IF state.iptables = "Some"
    THEN LET excluded == IF mesh # NoPort
                         THEN RemoveExclusion(state.exclusions, faults.exclusion)
                         ELSE Outcome(state.exclusions, "Ok")
             cleaned == CleanupRules(state.rules, faults.rule)
         IN  Result([state EXCEPT !.exclusions = excluded.table,
                                  !.rules = cleaned.table],
                    cleaned.ret,
                    ErrorOf("exclusion", excluded.ret)
                        \cup ErrorOf("rule", cleaned.ret))
    ELSE Result(state, "Ok", {})

\* Faulty variant of Cleanup: the error of remove_exclusion is returned.
CleanupStrict(state, mesh, faults) ==
    IF state.iptables = "Some"
    THEN LET taken == [state EXCEPT !.iptables = "None"]
             excluded == IF mesh # NoPort
                         THEN RemoveExclusion(state.exclusions, faults.exclusion)
                         ELSE Outcome(state.exclusions, "Ok")
             cleaned == CleanupRules(state.rules, faults.rule)
         IN  IF excluded.ret = "Err"
             THEN Result(taken, "Err", {"exclusion"})
             ELSE Result([taken EXCEPT !.exclusions = excluded.table,
                                       !.rules = cleaned.table],
                         cleaned.ret, ErrorOf("rule", cleaned.ret))
    ELSE Result(state, "Ok", {})

\* PortRedirector::cleanup: the context is taken; a failure to remove the
\* exclusion is logged, a failure of SafeIpTables::cleanup is returned.
Cleanup(state, mesh, faults) ==
    IF state.iptables = "Some"
    THEN LET taken == [state EXCEPT !.iptables = "None"]
             excluded == IF mesh # NoPort
                         THEN RemoveExclusion(state.exclusions, faults.exclusion)
                         ELSE Outcome(state.exclusions, "Ok")
             cleaned == CleanupRules(state.rules, faults.rule)
         IN  Result([taken EXCEPT !.exclusions = excluded.table,
                                  !.rules = cleaned.table],
                    cleaned.ret,
                    ErrorOf("exclusion", excluded.ret)
                        \cup ErrorOf("rule", cleaned.ret))
    ELSE Result(state, "Ok", {})

----------------------------------------------------------------------------
(* IpTablesRedirector::next_connection. A socket of the listener is        *)
(*   [source, destination]: source numbers the connection, destination is  *)
(*   the port getsockopt(SO_ORIGINAL_DST) resolves, NoPort when it fails.  *)

Socket(source, destination) == [source |-> source, destination |-> destination]

NoResult == [kind |-> "none", source |-> 0, destination |-> NoPort,
             error |-> "none"]

\* Ok(Redirected { stream, source, destination })
Redirected(source, destination) ==
    [kind |-> "Ok", source |-> source, destination |-> destination,
     error |-> "none"]

NextErr(error) ==
    [kind |-> "Err", source |-> 0, destination |-> NoPort, error |-> error]

\* One turn of the loop on an accepted socket: [break, ret, dropped].
Turn(break, result, dropped) ==
    [break |-> break, ret |-> result, dropped |-> dropped]

\* Faulty variant of OnAccepted: the failed resolution is returned.
OnAcceptedSurfaces(socket) ==
    IF socket.destination # NoPort
    THEN Turn(TRUE, Redirected(socket.source, socket.destination), {})
    ELSE Turn(TRUE, NextErr("destination"), {})

\* `match destination`: Ok breaks the loop with the connection, Err logs,
\* drops the socket and lets the loop go on.
OnAccepted(socket) ==
    IF socket.destination # NoPort
    THEN Turn(TRUE, Redirected(socket.source, socket.destination), {})
    ELSE Turn(FALSE, NoResult, {socket})

\* A peer connects to the listener: redirected by a rule (its original
\* destination resolves) or directly (it does not).
Connect(destination) ==
    /\ connected < MaxConnected
    /\ connected' = connected + 1
    /\ listener' = Append(listener, Socket(connected + 1, destination))
    /\ UNCHANGED << next_pc, next_ret, next_dropped >>
    /\ UNCHANGED << mirror_vars, ipt_vars, cli_vars >>

\* next_connection() is called.
NextConnection ==
    /\ next_pc = "idle"
    /\ next_pc' = "accepting"
    /\ next_ret' = NoResult
    /\ next_dropped' = {}
    /\ UNCHANGED << listener, connected >>
    /\ UNCHANGED << mirror_vars, ipt_vars, cli_vars >>

\* `self.listener.accept().await?` yields a socket, and the loop takes its
\* turn on it.
Accepted ==
    /\ next_pc = "accepting"
    /\ listener # << >>
    /\ LET turn == OnAccepted(Head(listener))
       IN  /\ next_pc' = IF turn.break THEN "idle" ELSE "accepting"
           /\ next_ret' = turn.ret
           /\ next_dropped' = next_dropped \cup turn.dropped
    /\ listener' = Tail(listener)
    /\ UNCHANGED connected
    /\ UNCHANGED << mirror_vars, ipt_vars, cli_vars >>

\* `self.listener.accept().await?` fails: the error is returned.
AcceptFailed ==
    /\ next_pc = "accepting"
    /\ next_pc' = "idle"
    /\ next_ret' = NextErr("accept")
    /\ UNCHANGED << listener, connected, next_dropped >>
    /\ UNCHANGED << mirror_vars, ipt_vars, cli_vars >>

\* TcpListener::bind in IpTablesRedirector::create
ListenerNew ==
    /\ listener = << >>
    /\ connected = 0
    /\ next_pc = "idle"
    /\ next_ret = NoResult
    /\ next_dropped = {}

----------------------------------------------------------------------------
(* The redirector's operations as steps.                                   *)

IptState ==
    [iptables |-> iptables, rules |-> rules[ipv6],
     exclusions |-> exclusions[ipv6]]

IptOp(name, port) == [name |-> name, port |-> port]

IptCall(name, port, result) == [name |-> name, port |-> port, ret |-> result]

\* The call `name` took the redirector to `result`.
IptStep(name, port, result) ==
    /\ result.state.exclusions <= MaxExclusions
    /\ iptables' = result.state.iptables
    /\ rules' = [rules EXCEPT ![ipv6] = result.state.rules]
    /\ exclusions' = [exclusions EXCEPT ![ipv6] = result.state.exclusions]
    /\ ipt_op' = IptOp(name, port)
    /\ ipt_ret' = result.ret
    /\ ipt_errors' = result.errors
    /\ ipt_prev' = IptCall(ipt_op.name, ipt_op.port, ipt_ret)
    /\ installed' =
        IF name = "add_redirection" /\ result.ret = "Ok"
        THEN installed \cup {port}
        ELSE installed
    /\ was_cleaned' = (was_cleaned \/ name = "cleanup")
    /\ ipt_failed' = (ipt_failed \/ result.errors # {})
    /\ UNCHANGED << ipv6, with_mesh_exclusion >>
    /\ UNCHANGED mirror_vars
    /\ UNCHANGED accept_vars
    /\ UNCHANGED cli_vars

DoInitialize(faults) ==
    IptStep("initialize", NoPort,
            Initialize(IptState, with_mesh_exclusion, faults))

DoAddRedirection(from_port, faults) ==
    IptStep("add_redirection", from_port,
            AddRedirection(IptState, with_mesh_exclusion, from_port, faults))

DoRemoveRedirection(from_port, faults) ==
    IptStep("remove_redirection", from_port,
            RemoveRedirection(IptState, from_port, faults))

DoCleanup(faults) ==
    IptStep("cleanup", NoPort,
            Cleanup(IptState, with_mesh_exclusion, faults))

\* IpTablesRedirector::create(flush_connections, pod_ips, ipv6,
\* with_mesh_exclusion)
IptNew(family, mesh) ==
    /\ iptables = "None"
    /\ ipv6 = family
    /\ with_mesh_exclusion = mesh
    /\ rules = [f \in BOOLEAN |-> NoRules]
    /\ exclusions = [f \in BOOLEAN |-> 0]
    /\ ipt_op = IptOp("create", NoPort)
    /\ ipt_ret = "Ok"
    /\ ipt_errors = {}
    /\ ipt_prev = IptCall("none", NoPort, "Ok")
    /\ installed = {}
    /\ was_cleaned = FALSE
    /\ ipt_failed = FALSE

----------------------------------------------------------------------------
(* MirrordExecution::start_internal (mirrord/cli/src/execution.rs): the    *)
(* steps between its awaits, up to the spawn of the internal proxy.        *)

\* The most recent protocol version an agent or operator reports; versions
\* are ranked 1 .. MaxAgentVersion.
MaxAgentVersion == 3

AgentVersions == 1 .. MaxAgentVersion

\* Option<Version>::None
NoVersion == 0

\* The first version that satisfies HTTP_COMPOSITE_FILTER_VERSION.
CompositeFilterMin == 2

\* HTTP_COMPOSITE_FILTER_VERSION.matches(&version)
CompositeMatches(version) ==
    version >= CompositeFilterMin

\* The fields of LayerConfig that start_internal and fetch_env_vars branch
\* on: feature.network.incoming.http_filter.is_composite(),
\* feature.env.load_from_process.unwrap_or(false), and feature.env having
\* both `include` and `exclude`.
ExecConfigs ==
    [is_composite : BOOLEAN, load_from_process : BOOLEAN,
     include_and_exclude : BOOLEAN]

\* AgentConnectInfo: Operator(OperatorSession) with its
\* operator_protocol_version, DirectKubernetes, or another variant.
ConnectInfo(kind, version) == [kind |-> kind, version |-> version]

ConnectInfos ==
    {ConnectInfo("Operator", v) : v \in AgentVersions \cup {NoVersion}}
    \cup {ConnectInfo("DirectKubernetes", NoVersion),
          ConnectInfo("ExternalProxy", NoVersion)}

NoConnectInfo == ConnectInfo("none", NoVersion)

\* What comes back after SwitchProtocolVersion was sent: the send fails,
\* the agent answers SwitchProtocolVersionResponse(version) or another
\* message, or the connection is closed.
Reply(kind, version) == [kind |-> kind, version |-> version]

Replies ==
    {Reply("version", v) : v \in AgentVersions}
    \cup {Reply(k, NoVersion) : k \in {"send_failed", "unexpected", "closed"}}

NoReply == Reply("none", NoVersion)

\* CliResult: Ok, or the error start_internal returns; `about` tells the
\* two ConfigError::Conflict apart.
ExecOk == [kind |-> "Ok", about |-> "none"]

ExecErr(kind, about) == [kind |-> kind, about |-> about]

NoExecRet == [kind |-> "none", about |-> "none"]

\* MirrordExecution::get_agent_version(&mut connection)
GetAgentVersion(reply) ==
    IF reply.kind = "send_failed"
    THEN [ok |-> FALSE, version |-> NoVersion, sent |-> << >>]
    ELSE IF reply.kind = "version"
    THEN [ok |-> TRUE, version |-> reply.version,
          sent |-> << "SwitchProtocolVersion" >>]
    ELSE [ok |-> FALSE, version |-> NoVersion,
          sent |-> << "SwitchProtocolVersion" >>]

\* Faulty variant of CompositeFilterGate: an unknown version passes.
CompositeFilterGateLenient(info, reply) ==
    LET asked == GetAgentVersion(reply)
    IN  CASE info.kind = "Operator" /\ info.version # NoVersion ->
               [ret |-> IF CompositeMatches(info.version) THEN ExecOk
                        ELSE ExecErr("Conflict", "http_filter"),
                sent |-> << >>, asked |-> FALSE]
          [] info.kind = "DirectKubernetes" ->
               [ret |-> IF ~asked.ok
                        THEN ExecErr("InitialAgentCommFailed", "version")
                        ELSE IF CompositeMatches(asked.version) THEN ExecOk
                        ELSE ExecErr("Conflict", "http_filter"),
                sent |-> asked.sent, asked |-> TRUE]
          [] OTHER ->
               [ret |-> ExecOk, sent |-> << >>, asked |-> FALSE]

\* The block of start_internal guarded by http_filter.is_composite(): the
\* version is the operator's when it reported one, the agent's answer in a
\* direct session, None otherwise; anything but a matching version is a
\* ConfigError::Conflict, and a failed get_agent_version is returned by `?`.
CompositeFilterGate(info, reply) ==
    LET asked == GetAgentVersion(reply)
    IN  CASE info.kind = "Operator" /\ info.version # NoVersion ->
               [ret |-> IF CompositeMatches(info.version) THEN ExecOk
                        ELSE ExecErr("Conflict", "http_filter"),
                sent |-> << >>, asked |-> FALSE]
          [] info.kind = "DirectKubernetes" ->
               [ret |-> IF ~asked.ok
                        THEN ExecErr("InitialAgentCommFailed", "version")
                        ELSE IF CompositeMatches(asked.version) THEN ExecOk
                        ELSE ExecErr("Conflict", "http_filter"),
                sent |-> asked.sent, asked |-> TRUE]
          [] OTHER ->
               [ret |-> ExecErr("Conflict", "http_filter"),
                sent |-> << >>, asked |-> FALSE]

\* start_internal fails: nothing more is done.
ExecFails(error) ==
    /\ exec_pc' = "failed"
    /\ exec_ret' = error

\* create_and_connect(config, progress, analytics, branch_name).await
ExecConnect(info, ok) ==
    /\ exec_pc = "start"
    /\ IF ok
       THEN /\ connect_info' = info
            /\ exec_pc' = "connected"
            /\ UNCHANGED exec_ret
       ELSE /\ ExecFails(ExecErr("AgentConnection", "none"))
            /\ UNCHANGED connect_info
    /\ UNCHANGED << config, connection, agent_reply >>
    /\ UNCHANGED << mirror_vars, ipt_vars, accept_vars, codec_vars, side_vars >>

\* The version gate of the composite HTTP filter.
ExecGate(reply) ==
    /\ exec_pc = "connected"
    /\ IF ~config.is_composite
       THEN /\ exec_pc' = "gated"
            /\ UNCHANGED << connection, agent_reply, exec_ret >>
       ELSE LET gate == CompositeFilterGate(connect_info, reply)
            IN  /\ connection' = connection \o gate.sent
                /\ agent_reply' = IF gate.asked THEN reply ELSE agent_reply
                /\ IF gate.ret = ExecOk
                   THEN exec_pc' = "gated" /\ UNCHANGED exec_ret
                   ELSE ExecFails(gate.ret)
    /\ UNCHANGED << config, connect_info >>
    /\ UNCHANGED << mirror_vars, ipt_vars, accept_vars, codec_vars, side_vars >>

\* fetch_env_vars(config, &mut connection): the filters, then
\* get_remote_env, which sends GetEnvVarsRequest and waits for the answer.
FetchEnvVars(include_and_exclude, ok) ==
    IF include_and_exclude
    THEN [ret |-> ExecErr("Conflict", "env"), sent |-> << >>]
    ELSE [ret |-> IF ok THEN ExecOk
                  ELSE ExecErr("InitialAgentCommFailed", "env"),
          sent |-> << "GetEnvVarsRequest" >>]

\* The remote env: skipped when load_from_process is set.
ExecFetchEnv(ok) ==
    /\ exec_pc = "gated"
    /\ IF config.load_from_process
       THEN /\ exec_pc' = "env"
            /\ UNCHANGED << connection, exec_ret >>
       ELSE LET env == FetchEnvVars(config.include_and_exclude, ok)
            IN  /\ connection' = connection \o env.sent
                /\ IF env.ret = ExecOk
                   THEN exec_pc' = "env" /\ UNCHANGED exec_ret
                   ELSE ExecFails(env.ret)
    /\ UNCHANGED << config, connect_info, agent_reply >>
    /\ UNCHANGED << mirror_vars, ipt_vars, accept_vars, codec_vars, side_vars >>

\* config.encode() and proxy_command.spawn()
ExecSpawn(ok) ==
    /\ exec_pc = "env"
    /\ IF ok
       THEN exec_pc' = "spawned" /\ exec_ret' = ExecOk
       ELSE ExecFails(ExecErr("InternalProxySpawnError", "none"))
    /\ UNCHANGED << config, connect_info, connection, agent_reply >>
    /\ UNCHANGED << mirror_vars, ipt_vars, accept_vars, codec_vars, side_vars >>

\* start_internal is called with `cfg`.
ExecNew(cfg) ==
    /\ exec_pc = "start"
    /\ config = cfg
    /\ connect_info = NoConnectInfo
    /\ connection = << >>
    /\ agent_reply = NoReply
    /\ exec_ret = NoExecRet

----------------------------------------------------------------------------
(* LayerConfig::encode and LayerConfig::decode (mirrord/config/src/lib.rs) *)
(* Text is a sequence of bytes. The config is LayerConfig cut down to      *)
(* three of its fields, one of each plain type the struct holds.           *)

\* The longest String in a field of the config.
MaxStringLen == 2

\* The bytes of the Strings: a letter, the quote and the backslash.
StringBytes == {97, 34, 92}

Strings == UNION {[1 .. n -> StringBytes] : n \in 0 .. MaxStringLen}

\* Option<T>: None (with a filler value) and Some(value).
NoneOf(filler) == [some |-> FALSE, value |-> filler]

SomeOf(value) == [some |-> TRUE, value |-> value]

\* accept_invalid_certificates: Option<bool>, telemetry: bool,
\* kube_context: Option<String>
LayerConfigs ==
    [accept_invalid_certificates : {NoneOf(FALSE)} \cup {SomeOf(b) : b \in BOOLEAN},
     telemetry : BOOLEAN,
     kube_context : {NoneOf(<< >>)} \cup {SomeOf(str) : str \in Strings}]

\* The config that stands where a Result holds none.
NoConfig ==
    [accept_invalid_certificates |-> NoneOf(FALSE), telemetry |-> FALSE,
     kube_context |-> NoneOf(<< >>)]

\* Result<_, ConfigError>
CodecOk(value) == [ok |-> TRUE, error |-> "none", value |-> value]

CodecErr(error, filler) == [ok |-> FALSE, error |-> error, value |-> filler]

\* ---- serde_json::to_string of the derived Serialize ----

Quote == << 34 >>
Colon == << 58 >>
Comma == << 44 >>
OpenBrace == << 123 >>
CloseBrace == << 125 >>
JsonNull == << 110, 117, 108, 108 >>
JsonTrue == << 116, 114, 117, 101 >>
JsonFalse == << 102, 97, 108, 115, 101 >>

\* "accept_invalid_certificates"
KeyAcceptInvalidCertificates ==
    << 97, 99, 99, 101, 112, 116, 95, 105, 110, 118, 97, 108, 
    105, 100, 95, 99, 101, 114, 116, 105, 102, 105, 99, 97, 116, 101, 115 >>

\* "telemetry"
KeyTelemetry == << 116, 101, 108, 101, 109, 101, 116, 114, 121 >>

\* "kube_context"
KeyKubeContext == << 107, 117, 98, 101, 95, 99, 111, 110, 116, 101, 120, 116 >>

\* A JSON string body: the quote and the backslash are escaped.
RECURSIVE Escape(_)
Escape(str) ==
    IF str = << >> THEN << >>
    ELSE (IF Head(str) \in {34, 92} THEN << 92, Head(str) >> ELSE << Head(str) >>)
         \o Escape(Tail(str))

SerString(str) == Quote \o Escape(str) \o Quote

SerBool(b) == IF b THEN JsonTrue ELSE JsonFalse

SerOptionBool(option) ==
    IF option.some THEN SerBool(option.value) ELSE JsonNull

SerOptionString(option) ==
    IF option.some THEN SerString(option.value) ELSE JsonNull

SerField(key, text) == Quote \o key \o Quote \o Colon \o text

\* serde_json::to_string(self): the fields in the order of the struct.
SerdeToString(cfg) ==
    OpenBrace
    \o SerField(KeyAcceptInvalidCertificates,
                SerOptionBool(cfg.accept_invalid_certificates))
    \o Comma \o SerField(KeyTelemetry, SerBool(cfg.telemetry))
    \o Comma \o SerField(KeyKubeContext, SerOptionString(cfg.kube_context))
    \o CloseBrace

\* ---- serde_json::from_slice into the derived Deserialize ----

\* JSON values: null, a boolean, a string.
JNull == [type |-> "null", bool |-> FALSE, string |-> << >>]

JBool(b) == [type |-> "bool", bool |-> b, string |-> << >>]

JString(str) == [type |-> "string", bool |-> FALSE, string |-> str]

\* The outcome of reading at a position: the value and the position after.
Read(value, next) == [ok |-> TRUE, value |-> value, next |-> next]

ReadFails == [ok |-> FALSE, value |-> JNull, next |-> 0]

StartsWith(text, pos, literal) ==
    /\ pos + Len(literal) - 1 <= Len(text)
    /\ SubSeq(text, pos, pos + Len(literal) - 1) = literal

\* The body of a string, from the byte after its opening quote.
RECURSIVE ReadString(_, _, _)
ReadString(text, pos, acc) ==
    IF pos > Len(text) THEN ReadFails
    ELSE IF text[pos] = 34 THEN Read(JString(acc), pos + 1)
    ELSE IF text[pos] = 92
    THEN IF pos + 1 <= Len(text) /\ text[pos + 1] \in {34, 92}
         THEN ReadString(text, pos + 2, Append(acc, text[pos + 1]))
         ELSE ReadFails
    ELSE ReadString(text, pos + 1, Append(acc, text[pos]))

ReadValue(text, pos) ==
    IF StartsWith(text, pos, JsonNull) THEN Read(JNull, pos + 4)
    ELSE IF StartsWith(text, pos, JsonTrue) THEN Read(JBool(TRUE), pos + 4)
    ELSE IF StartsWith(text, pos, JsonFalse) THEN Read(JBool(FALSE), pos + 5)
    ELSE IF StartsWith(text, pos, Quote) THEN ReadString(text, pos + 1, << >>)
    ELSE ReadFails

\* The members of an object, from the first byte of a key; the value read
\* is the sequence of [key, value] found up to the closing brace.
RECURSIVE ReadMembers(_, _, _)
ReadMembers(text, pos, members) ==
    IF ~StartsWith(text, pos, Quote) THEN [ReadFails EXCEPT !.value = << >>]
    ELSE LET key == ReadString(text, pos + 1, << >>)
         IN  IF ~key.ok \/ ~StartsWith(text, key.next, Colon)
             THEN [ReadFails EXCEPT !.value = << >>]
             ELSE LET member == ReadValue(text, key.next + 1)
                      found == Append(members, [key |-> key.value.string,
                                                value |-> member.value])
                  IN  IF ~member.ok THEN [ReadFails EXCEPT !.value = << >>]
                      ELSE IF StartsWith(text, member.next, Comma)
                      THEN ReadMembers(text, member.next + 1, found)
                      ELSE IF StartsWith(text, member.next, CloseBrace)
                      THEN Read(found, member.next + 1)
                      ELSE [ReadFails EXCEPT !.value = << >>]

\* One object that ends where the text ends.
ReadObject(text) ==
    LET object ==
            IF ~StartsWith(text, 1, OpenBrace)
            THEN [ReadFails EXCEPT !.value = << >>]
            ELSE IF StartsWith(text, 2, CloseBrace) THEN Read(<< >>, 3)
            ELSE ReadMembers(text, 2, << >>)
    IN  IF object.ok /\ object.next = Len(text) + 1 THEN object
        ELSE [ReadFails EXCEPT !.value = << >>]

\* The derived visitor: the members that carry `key`.
Members(members, key) ==
    {i \in 1 .. Len(members) : members[i].key = key}

\* A field of type Option<T> whose T has JSON type `type`: absent or null
\* is None; twice is an error.
FieldOption(members, key, type, filler) ==
    LET at == Members(members, key)
    IN  IF at = {} THEN CodecOk(NoneOf(filler))
        ELSE IF Cardinality(at) > 1 THEN CodecErr("DecodeError", NoneOf(filler))
        ELSE LET member == members[CHOOSE i \in at : TRUE].value
             IN  IF member.type = "null" THEN CodecOk(NoneOf(filler))
                 ELSE IF member.type # type
                 THEN CodecErr("DecodeError", NoneOf(filler))
                 ELSE IF type = "bool" THEN CodecOk(SomeOf(member.bool))
                 ELSE CodecOk(SomeOf(member.string))

\* A field of type bool: it must be there, once, as a boolean.
FieldBool(members, key) ==
    LET at == Members(members, key)
    IN  IF Cardinality(at) # 1 THEN CodecErr("DecodeError", FALSE)
        ELSE LET member == members[CHOOSE i \in at : TRUE].value
             IN  IF member.type # "bool" THEN CodecErr("DecodeError", FALSE)
                 ELSE CodecOk(member.bool)

\* serde_json::from_slice::<LayerConfig>(&decoded)
FromSlice(text) ==
    LET object == ReadObject(text)
        certificates == FieldOption(object.value, KeyAcceptInvalidCertificates,
                                    "bool", FALSE)
        telemetry == FieldBool(object.value, KeyTelemetry)
        context == FieldOption(object.value, KeyKubeContext, "string", << >>)
    IN  IF object.ok /\ certificates.ok /\ telemetry.ok /\ context.ok
        THEN CodecOk([accept_invalid_certificates |-> certificates.value,
                      telemetry |-> telemetry.value,
                      kube_context |-> context.value])
        ELSE CodecErr("DecodeError", NoConfig)

\* ---- BASE64_STANDARD: the alphabet A-Z a-z 0-9 + /, padded with = ----

Pad == << 61 >>

\* The byte that stands for a 6-bit value.
Base64Byte(six) ==
    IF six < 26 THEN 65 + six
    ELSE IF six < 52 THEN 71 + six
    ELSE IF six < 62 THEN six - 4
    ELSE IF six = 62 THEN 43
    ELSE 47

\* The 6-bit value of a byte of the alphabet, -1 for any other byte.
Base64Value(byte) ==
    IF byte \in 65 .. 90 THEN byte - 65
    ELSE IF byte \in 97 .. 122 THEN byte - 71
    ELSE IF byte \in 48 .. 57 THEN byte + 4
    ELSE IF byte = 43 THEN 62
    ELSE IF byte = 47 THEN 63
    ELSE 0 - 1

\* Faulty variant of Base64Encode: the output is not padded.
RECURSIVE Base64EncodeNoPad(_)
Base64EncodeNoPad(bytes) ==
    IF bytes = << >> THEN << >>
    ELSE IF Len(bytes) = 1
    THEN << Base64Byte(bytes[1] \div 4), Base64Byte((bytes[1] % 4) * 16) >>
    ELSE IF Len(bytes) = 2
    THEN << Base64Byte(bytes[1] \div 4),
            Base64Byte((bytes[1] % 4) * 16 + bytes[2] \div 16),
            Base64Byte((bytes[2] % 16) * 4) >>
    ELSE << Base64Byte(bytes[1] \div 4),
            Base64Byte((bytes[1] % 4) * 16 + bytes[2] \div 16),
            Base64Byte((bytes[2] % 16) * 4 + bytes[3] \div 64),
            Base64Byte(bytes[3] % 64) >>
         \o Base64EncodeNoPad(SubSeq(bytes, 4, Len(bytes)))

\* BASE64_STANDARD.encode(serialized): three bytes to four, the last group
\* padded to four.
RECURSIVE Base64Encode(_)
Base64Encode(bytes) ==
    IF bytes = << >> THEN << >>
    ELSE IF Len(bytes) = 1
    THEN << Base64Byte(bytes[1] \div 4), Base64Byte((bytes[1] % 4) * 16) >>
         \o Pad \o Pad
    ELSE IF Len(bytes) = 2
    THEN << Base64Byte(bytes[1] \div 4),
            Base64Byte((bytes[1] % 4) * 16 + bytes[2] \div 16),
            Base64Byte((bytes[2] % 16) * 4) >>
         \o Pad
    ELSE << Base64Byte(bytes[1] \div 4),
            Base64Byte((bytes[1] % 4) * 16 + bytes[2] \div 16),
            Base64Byte((bytes[2] % 16) * 4 + bytes[3] \div 64),
            Base64Byte(bytes[3] % 64) >>
         \o Base64Encode(SubSeq(bytes, 4, Len(bytes)))

\* The bytes of one group of four; padding is taken in the last group only
\* and the bits it leaves unused must be zero.
Base64Group(group, is_final) ==
    LET v1 == Base64Value(group[1])
        v2 == Base64Value(group[2])
        v3 == Base64Value(group[3])
        v4 == Base64Value(group[4])
    IN  IF v1 < 0 \/ v2 < 0 THEN [ok |-> FALSE, bytes |-> << >>]
        ELSE IF is_final /\ group[3] = 61 /\ group[4] = 61
        THEN [ok |-> v2 % 16 = 0, bytes |-> << v1 * 4 + v2 \div 16 >>]
        ELSE IF v3 < 0 THEN [ok |-> FALSE, bytes |-> << >>]
        ELSE IF is_final /\ group[4] = 61
        THEN [ok |-> v3 % 4 = 0,
              bytes |-> << v1 * 4 + v2 \div 16, (v2 % 16) * 16 + v3 \div 4 >>]
        ELSE IF v4 < 0 THEN [ok |-> FALSE, bytes |-> << >>]
        ELSE [ok |-> TRUE,
              bytes |-> << v1 * 4 + v2 \div 16, (v2 % 16) * 16 + v3 \div 4,
                           (v3 % 4) * 64 + v4 >>]

RECURSIVE Base64Groups(_)
Base64Groups(text) ==
    IF text = << >> THEN [ok |-> TRUE, bytes |-> << >>]
    ELSE LET group == Base64Group(SubSeq(text, 1, 4), Len(text) = 4)
             rest == Base64Groups(SubSeq(text, 5, Len(text)))
         IN  [ok |-> group.ok /\ rest.ok, bytes |-> group.bytes \o rest.bytes]

\* BASE64_STANDARD.decode(encoded_value): the padding is required.
Base64Decode(text) ==
    IF Len(text) % 4 # 0 THEN [ok |-> FALSE, bytes |-> << >>]
    ELSE Base64Groups(text)

\* ---- LayerConfig ----

\* LayerConfig::encode(&self)
encode(cfg) ==
    CodecOk(Base64Encode(SerdeToString(cfg)))

\* LayerConfig::decode(encoded_value)
decode(encoded_value) ==
    LET raw == Base64Decode(encoded_value)
    IN  IF ~raw.ok THEN CodecErr("DecodeError", NoConfig)
        ELSE FromSlice(raw.bytes)

\* let encoded = resolved_config.encode()
DoEncode ==
    /\ codec_pc = "resolved"
    /\ encoded_config' = encode(resolved_config)
    /\ codec_pc' = "encoded"
    /\ UNCHANGED << resolved_config, decoded_config >>
    /\ UNCHANGED << mirror_vars, ipt_vars, accept_vars, exec_vars, side_vars >>

\* let decoded = LayerConfig::decode(&encoded)
DoDecode ==
    /\ codec_pc = "encoded"
    /\ encoded_config.ok
    /\ decoded_config' = decode(encoded_config.value)
    /\ codec_pc' = "decoded"
    /\ UNCHANGED << resolved_config, encoded_config >>
    /\ UNCHANGED << mirror_vars, ipt_vars, accept_vars, exec_vars, side_vars >>

\* A resolved config, not yet encoded.
CodecNew(cfg) ==
    /\ codec_pc = "resolved"
    /\ resolved_config = cfg
    /\ encoded_config = CodecErr("none", << >>)
    /\ decoded_config = CodecErr("none", NoConfig)

----------------------------------------------------------------------------
(* MirrordExecution::get_remote_env (mirrord/cli/src/execution.rs): the    *)
(* send, then one step per message connection.receiver.recv() yields.      *)

\* The most LogMessages the agent sends before its answer.
MaxLogMessages == 3

\* The remote environments an agent answers with.
RemoteEnvs == {"empty", "PATH"}

LogLevels == {"Error", "Warn", "Info"}

\* Option<DaemonMessage>, as connection.receiver.recv() yields it: a
\* DaemonMessage, or "None" when the channel is closed.
AgentMessage(kind, env, level) == [kind |-> kind, env |-> env, level |-> level]

AgentMessages ==
    {AgentMessage("GetEnvVarsResponseOk", env, "none") : env \in RemoteEnvs}
    \cup {AgentMessage("LogMessage", "none", level) : level \in LogLevels}
    \cup {AgentMessage(kind, "none", "none") :
             kind \in {"GetEnvVarsResponseErr", "Close", "Pong", "None"}}

\* CliResult<HashMap<String, String>>
RemoteEnvOk(env) == [kind |-> "Ok", env |-> env, about |-> "none"]

InitialAgentCommFailed(about) ==
    [kind |-> "InitialAgentCommFailed", env |-> "none", about |-> about]

NoRemoteEnv == [kind |-> "none", env |-> "none", about |-> "none"]

\* Faulty variant of OnAgentMessage: a message that is no answer is skipped
\* like a log.
OnAgentMessageSkipsUnexpected(message) ==
    IF message.kind = "GetEnvVarsResponseOk"
    THEN [returns |-> TRUE, ret |-> RemoteEnvOk(message.env)]
    ELSE IF message.kind = "GetEnvVarsResponseErr"
    THEN [returns |-> TRUE, ret |-> InitialAgentCommFailed("error")]
    ELSE IF message.kind = "Close"
    THEN [returns |-> TRUE, ret |-> InitialAgentCommFailed("closed with message")]
    ELSE IF message.kind = "None"
    THEN [returns |-> TRUE, ret |-> InitialAgentCommFailed("closed")]
    ELSE [returns |-> FALSE, ret |-> NoRemoteEnv]

\* One turn of the loop of get_remote_env: the match on what recv()
\* yielded; a LogMessage is logged and the loop continues, every other arm
\* is returned.
OnAgentMessage(message) ==
    IF message.kind = "GetEnvVarsResponseOk"
    THEN [returns |-> TRUE, ret |-> RemoteEnvOk(message.env)]
    ELSE IF message.kind = "GetEnvVarsResponseErr"
    THEN [returns |-> TRUE, ret |-> InitialAgentCommFailed("error")]
    ELSE IF message.kind = "LogMessage"
    THEN [returns |-> FALSE, ret |-> NoRemoteEnv]
    ELSE IF message.kind = "Close"
    THEN [returns |-> TRUE, ret |-> InitialAgentCommFailed("closed with message")]
    ELSE IF message.kind = "None"
    THEN [returns |-> TRUE, ret |-> InitialAgentCommFailed("closed")]
    ELSE [returns |-> TRUE, ret |-> InitialAgentCommFailed("unexpected")]

LogMessagesIn(received) ==
    Cardinality({i \in 1 .. Len(received) : received[i].kind = "LogMessage"})

\* connection.sender.send(ClientMessage::GetEnvVarsRequest(..)).await: it
\* fails when the agent's end of the channel is closed.
RemoteEnvSend(ok) ==
    /\ env_pc = "called"
    /\ IF ok
       THEN /\ env_sent' = Append(env_sent, "GetEnvVarsRequest")
            /\ env_pc' = "receiving"
            /\ UNCHANGED env_ret
       ELSE /\ env_pc' = "returned"
            /\ env_ret' = InitialAgentCommFailed("closed")
            /\ UNCHANGED env_sent
    /\ UNCHANGED env_received
    /\ UNCHANGED << mirror_vars, ipt_vars, accept_vars, exec_vars, codec_vars >>
    /\ UNCHANGED << sniffer_vars, dirent_vars >>

\* connection.receiver.recv().await yields `message`.
RemoteEnvRecv(message) ==
    /\ env_pc = "receiving"
    /\ message.kind = "LogMessage"
         => LogMessagesIn(env_received) < MaxLogMessages
    /\ env_received' = Append(env_received, message)
    /\ LET turn == OnAgentMessage(message)
       IN  IF turn.returns
           THEN env_pc' = "returned" /\ env_ret' = turn.ret
           ELSE UNCHANGED << env_pc, env_ret >>
    /\ UNCHANGED env_sent
    /\ UNCHANGED << mirror_vars, ipt_vars, accept_vars, exec_vars, codec_vars >>
    /\ UNCHANGED << sniffer_vars, dirent_vars >>

\* get_remote_env(connection, ..) has been called.
RemoteEnvNew ==
    /\ env_pc = "called"
    /\ env_sent = << >>
    /\ env_received = << >>
    /\ env_ret = NoRemoteEnv

----------------------------------------------------------------------------
(* TcpMirrorApi::recv, Sniffer variant (mirrord/agent/src/mirror.rs).      *)

\* The most messages TcpSnifferApi::recv yields.
MaxSniffed == 3

SniffedKinds == {"NewConnectionV1", "Data", "Close"}

\* Option<DaemonTcp>::None
NoMessage == [seq |-> 0, kind |-> "none"]

\* The seq-th DaemonTcp the sniffer api yields.
Sniffed(seq, kind) == [seq |-> seq, kind |-> kind]

\* What api.recv().await yields: Ok((message, log)) or Err.
SnifferItem(kind, message, log) == [kind |-> kind, message |-> message, log |-> log]

SnifferItems(seq) ==
    {SnifferItem("Ok", Sniffed(seq, kind), log) :
        kind \in SniffedKinds, log \in BOOLEAN}
    \cup {SnifferItem("Err", NoMessage, FALSE)}

\* AgentResult<DaemonMessage>
SnifferRet(kind, message) == [kind |-> kind, message |-> message]

\* The outcome of a recv(): what it returns, what it leaves in the slot,
\* whether it polled the api.
SnifferOutcome(result, queued, polls) ==
    [ret |-> result, queued_message |-> queued, polled |-> polls]

\* Faulty variant of SnifferRecv: the api is polled before the slot is
\* looked at.
SnifferRecvPollsFirst(queued, item) ==
    IF item.kind = "Err"
    THEN SnifferOutcome(SnifferRet("Err", NoMessage), queued, TRUE)
    ELSE IF item.log
    THEN SnifferOutcome(SnifferRet("LogMessage", NoMessage), item.message, TRUE)
    ELSE IF queued # NoMessage
    THEN SnifferOutcome(SnifferRet("Tcp", queued), NoMessage, TRUE)
    ELSE SnifferOutcome(SnifferRet("Tcp", item.message), NoMessage, TRUE)

\* recv(), Sniffer arm: queued_message.take() first; else api.recv().await?,
\* and a message that comes with a log waits in the slot while the log is
\* returned.
SnifferRecv(queued, item) ==
    IF queued # NoMessage
    THEN SnifferOutcome(SnifferRet("Tcp", queued), NoMessage, FALSE)
    ELSE IF item.kind = "Err"
    THEN SnifferOutcome(SnifferRet("Err", NoMessage), NoMessage, TRUE)
    ELSE IF item.log
    THEN SnifferOutcome(SnifferRet("LogMessage", NoMessage), item.message, TRUE)
    ELSE SnifferOutcome(SnifferRet("Tcp", item.message), NoMessage, TRUE)

\* A call of recv(); `item` is what the api yields if polled.
DoSnifferRecv(item) ==
    LET out == SnifferRecv(queued_message, item)
        yielded == out.polled /\ item.kind = "Ok"
    IN  /\ yielded => Len(api) < MaxSniffed
        /\ queued_message' = out.queued_message
        /\ api' = IF yielded THEN Append(api, item.message) ELSE api
        /\ sniffer_polled' = [api |-> out.polled, queued |-> queued_message]
        /\ sniffer_ret' = out.ret
        /\ sniffer_out' =
              IF out.ret.kind = "Tcp" THEN Append(sniffer_out, out.ret.message)
              ELSE sniffer_out
        /\ UNCHANGED << mirror_vars, ipt_vars, accept_vars, exec_vars,
                        codec_vars >>
        /\ UNCHANGED << remote_env_vars, dirent_vars >>

\* TcpMirrorApi::sniffer(api)
SnifferNew ==
    /\ queued_message = NoMessage
    /\ api = << >>
    /\ sniffer_polled = [api |-> FALSE, queued |-> NoMessage]
    /\ sniffer_ret = SnifferRet("none", NoMessage)
    /\ sniffer_out = << >>

----------------------------------------------------------------------------
(* DirEntryInternal::get_d_reclen64 (mirrord/protocol/src/file.rs), in     *)
(* u16 arithmetic. An addition that overflows panics in a build with       *)
(* overflow checks and wraps in a build without.                           *)

\* The width of u16.
Width == 16

U16 == 2 ^ Width

\* How far from 0 and from the limits of u16 the arguments range.
Near == 24

\* The fixed-size members of linux_dirent64 and the terminating null.
FixedSize == 20

\* The arguments of round_up_to_next_multiple_of_8.
Shorts == (0 .. Near) \cup ((U16 - Near) .. (U16 - 1))

\* The values of self.name.len(), a usize.
NameLens ==
    (0 .. Near) \cup ((U16 - FixedSize - Near) .. (U16 + Near))

Returns(value) == [kind |-> "Ok", value |-> value]

Panics == [kind |-> "Panic", value |-> 0]

NoReturn == [kind |-> "none", value |-> 0]

\* a + b on u16
AddU16(a, b, checks) ==
    IF a + b < U16 THEN Returns(a + b)
    ELSE IF checks THEN Panics
    ELSE Returns((a + b) % U16)

\* x & !7 on u16
ClearLow3(x) == x - (x % 8)

\* Faulty variant of RoundUpToNextMultipleOf8: the low bits are cleared
\* and nothing is added.
RoundDownToMultipleOf8(x, checks) ==
    Returns(ClearLow3(x))

\* round_up_to_next_multiple_of_8(x): (x + 7) & !7
RoundUpToNextMultipleOf8(x, checks) ==
    LET sum == AddU16(x, 7, checks)
    IN  IF sum.kind = "Panic" THEN Panics ELSE Returns(ClearLow3(sum.value))

\* get_d_reclen64(&self), name_len being self.name.len():
\* round_up_to_next_multiple_of_8(20 + self.name.len() as u16)
GetDReclen64(name_len, checks) ==
    LET sum == AddU16(FixedSize, name_len % U16, checks)
    IN  IF sum.kind = "Panic" THEN Panics
        ELSE RoundUpToNextMultipleOf8(sum.value, checks)

DirentCall(function, arg) == [function |-> function, arg |-> arg]

DoRoundUp ==
    /\ dirent_ret = NoReturn
    /\ dirent_call.function = "round_up_to_next_multiple_of_8"
    /\ dirent_ret' = RoundUpToNextMultipleOf8(dirent_call.arg, overflow_checks)
    /\ UNCHANGED << overflow_checks, dirent_call >>
    /\ UNCHANGED << mirror_vars, ipt_vars, accept_vars, exec_vars, codec_vars >>
    /\ UNCHANGED << remote_env_vars, sniffer_vars >>

DoGetDReclen64 ==
    /\ dirent_ret = NoReturn
    /\ dirent_call.function = "get_d_reclen64"
    /\ dirent_ret' = GetDReclen64(dirent_call.arg, overflow_checks)
    /\ UNCHANGED << overflow_checks, dirent_call >>
    /\ UNCHANGED << mirror_vars, ipt_vars, accept_vars, exec_vars, codec_vars >>
    /\ UNCHANGED << remote_env_vars, sniffer_vars >>

\* A call about to be made, in a build with or without overflow checks.
DirentNew(checks, call) ==
    /\ overflow_checks = checks
    /\ dirent_call = call
    /\ dirent_ret = NoReturn

----------------------------------------------------------------------------
(* The sides at rest.                                                      *)

\* What the specifications of the other parts leave alone.
SideIdle ==
    /\ RemoteEnvNew
    /\ SnifferNew
    /\ DirentNew(FALSE, DirentCall("none", 0))

\* The CLI side at rest, for the specifications of the agent side.
CliIdle ==
    /\ ExecNew([is_composite |-> FALSE, load_from_process |-> FALSE,
                include_and_exclude |-> FALSE])
    /\ CodecNew(NoConfig)
    /\ SideIdle

\* The agent side at rest, for the specifications of the CLI side.
AgentIdle ==
    /\ MirrorNew(1)
    /\ IptNew(FALSE, NoPort)
    /\ ListenerNew

----------------------------------------------------------------------------
(* Specifications.                                                         *)

\* Traffic for which recv() draws a connection id under `version`.
NeedsId(item, tls, version) ==
    \/ item = "Tcp" /\ (Matches(version) \/ ~tls)
    \/ item = "Http" /\ Matches(version)

\* The ports the client of the multiplexer subscribes to.
MirrorPorts == {80}

InitMirror ==
    /\ \E version \in Versions : MirrorNew(version)
    /\ IptNew(FALSE, NoPort)
    /\ ListenerNew
    /\ CliIdle

NextMirror ==
    \/ RecvQueued
    \/ \E id \in ConnIds, item \in {"Data", "NoMoreData", "Frame",
                                    "NoMoreFrames", "FinishedOk", "FinishedErr"},
          dropped \in SUBSET ConnIds : RecvStream(id, item, dropped)
    \/ \E traffic \in TrafficOn(MirrorPorts), dropped \in SUBSET ConnIds :
          RecvTraffic(traffic, dropped)
    \/ RecvPending
    \/ \E id \in ConnIds : ConnectionUnsubscribe(id)
    \/ \E port \in MirrorPorts, ok \in BOOLEAN : PortSubscribe(port, ok)
    \/ \E port \in MirrorPorts : PortUnsubscribe(port)

SpecMirror == InitMirror /\ [][NextMirror]_vars

\* The scenario of the fairness of recv(): a client that subscribes and
\* then only receives, plain TCP connections and HTTP requests arriving,
\* connections sending data, finishing and failing.
FairItems == {"Data", "FinishedOk", "FinishedErr"}

FairTraffic ==
    {Traffic(k, p, FALSE, FALSE) : k \in {"Tcp", "Http"}, p \in MirrorPorts}

RecvStreamOf(id) ==
    \E item \in FairItems : RecvStream(id, item, {})

RecvAnnounced ==
    \E traffic \in FairTraffic :
       /\ NeedsId(traffic.kind, traffic.tls, protocol_version)
       /\ RecvTraffic(traffic, {})

NextMirrorFair ==
    \/ RecvQueued
    \/ \E id \in ConnIds : RecvStreamOf(id)
    \/ \E traffic \in FairTraffic : RecvTraffic(traffic, {})
    \/ RecvPending
    \/ \E port \in MirrorPorts : PortSubscribe(port, TRUE)

\* Fair scheduling of recv(): the caller keeps calling it, and the random
\* start of select! and of StreamMap's poll lets no branch and no stream
\* that is ready again and again lose for ever.
FairRecv ==
    /\ WF_vars(RecvQueued)
    /\ \A id \in ConnIds : SF_vars(RecvStreamOf(id))
    /\ SF_vars(RecvAnnounced)

SpecMirrorFair == InitMirror /\ [][NextMirrorFair]_vars /\ FairRecv

InitIpt ==
    /\ MirrorNew(1)
    /\ \E family \in BOOLEAN, mesh \in {NoPort, AgentPort} : IptNew(family, mesh)
    /\ ListenerNew
    /\ CliIdle

NextIpt ==
    \/ \E faults \in AllFaults : DoInitialize(faults)
    \/ \E port \in Ports, faults \in AllFaults : DoAddRedirection(port, faults)
    \/ \E port \in Ports, faults \in AllFaults : DoRemoveRedirection(port, faults)
    \/ \E faults \in AllFaults : DoCleanup(faults)

SpecIpt == InitIpt /\ [][NextIpt]_vars

InitAccept ==
    /\ MirrorNew(1)
    /\ \E family \in BOOLEAN : IptNew(family, NoPort)
    /\ ListenerNew
    /\ CliIdle

NextAccept ==
    \/ \E destination \in Ports \cup {NoPort} : Connect(destination)
    \/ NextConnection
    \/ Accepted
    \/ AcceptFailed

SpecAccept == InitAccept /\ [][NextAccept]_vars

InitExec ==
    /\ AgentIdle
    /\ \E cfg \in ExecConfigs : ExecNew(cfg)
    /\ CodecNew(NoConfig)
    /\ SideIdle

NextExec ==
    \/ \E info \in ConnectInfos, ok \in BOOLEAN : ExecConnect(info, ok)
    \/ \E reply \in Replies : ExecGate(reply)
    \/ \E ok \in BOOLEAN : ExecFetchEnv(ok)
    \/ \E ok \in BOOLEAN : ExecSpawn(ok)

SpecExec == InitExec /\ [][NextExec]_vars

InitCodec ==
    /\ AgentIdle
    /\ ExecNew([is_composite |-> FALSE, load_from_process |-> FALSE,
                include_and_exclude |-> FALSE])
    /\ \E cfg \in LayerConfigs : CodecNew(cfg)
    /\ SideIdle

NextCodec ==
    \/ DoEncode
    \/ DoDecode

SpecCodec == InitCodec /\ [][NextCodec]_vars

\* The agent side and start_internal at rest.
OthersIdle ==
    /\ AgentIdle
    /\ ExecNew([is_composite |-> FALSE, load_from_process |-> FALSE,
                include_and_exclude |-> FALSE])
    /\ CodecNew(NoConfig)

InitRemoteEnv ==
    /\ OthersIdle
    /\ RemoteEnvNew
    /\ SnifferNew
    /\ DirentNew(FALSE, DirentCall("none", 0))

NextRemoteEnv ==
    \/ \E ok \in BOOLEAN : RemoteEnvSend(ok)
    \/ \E message \in AgentMessages : RemoteEnvRecv(message)

SpecRemoteEnv == InitRemoteEnv /\ [][NextRemoteEnv]_vars

InitSniffer ==
    /\ OthersIdle
    /\ RemoteEnvNew
    /\ SnifferNew
    /\ DirentNew(FALSE, DirentCall("none", 0))

NextSniffer ==
    \E item \in SnifferItems(Len(api) + 1) : DoSnifferRecv(item)

SpecSniffer == InitSniffer /\ [][NextSniffer]_vars

InitDirEntry ==
    /\ OthersIdle
    /\ RemoteEnvNew
    /\ SnifferNew
    /\ \E checks \in BOOLEAN :
          \/ \E x \in Shorts :
                DirentNew(checks, DirentCall("round_up_to_next_multiple_of_8", x))
          \/ \E name_len \in NameLens :
                DirentNew(checks, DirentCall("get_d_reclen64", name_len))

NextDirEntry ==
    \/ DoRoundUp
    \/ DoGetDReclen64

SpecDirEntry == InitDirEntry /\ [][NextDirEntry]_vars

----------------------------------------------------------------------------
(* Properties of the multiplexer (SpecMirror).                             *)

\* The last step was a recv() that returned.
Returned == last = "recv"

\* A stream that can still yield events.
Live(streams, id) == streams[id] # NoStream /\ streams[id].phase # "done"

\* Close messages for id waiting in the queue.
QueuedCloses(id) ==
    Cardinality({i \in 1 .. Len(queued_messages) : queued_messages[i] = Close(id)})

\* Announcements returned for id.
Announcements(id) ==
    Cardinality({i \in 1 .. Len(announced) : announced[i] = id})

\* C1: a recv() that starts with a non-empty queue returns the head of the
\* queue and does nothing else: the queue loses its head, and the streams,
\* the id iterator and the mirror handle are as before; it is never pending
\* and never returns a fresh event.
C1_QueuedMessageFirst ==
    [][ (queued_messages # <<>> /\ last' \in {"recv", "pending"})
        => /\ last' = "recv"
           /\ ret' = Head(queued_messages)
           /\ queued_messages' = Tail(queued_messages)
           /\ polled'.src = "queue"
           /\ incoming_streams' = incoming_streams
           /\ connection_ids_iter' = connection_ids_iter
           /\ mirror_handle' = mirror_handle ]_vars

\* C1 witness: a queued SubscribeResult was returned while a live stream and
\* a mirrored port could both have produced a fresh event.
C1_Witness ==
    /\ Returned
    /\ polled.src = "queue"
    /\ ret.kind = "SubscribeResult"
    /\ mirror_handle # {}
    /\ \E id \in ConnIds : Live(incoming_streams, id)

\* C2: the recv() that takes Finished(Err) of connection c returns a
\* warning-level LogMessage and leaves Close(c) owed; the next message recv()
\* returns is Close(c), whatever handle_client_message calls come between.
C2_WarningThenClose ==
    /\ [](Returned /\ polled.item = "FinishedErr"
            => ret = Log("warn", polled.id) /\ owed = polled.id)
    /\ [][ (owed # NoId /\ last' \in {"recv", "pending"})
            => (last' = "recv" /\ ret' = Close(owed)) ]_vars

\* C2 witness: the owed Close was returned from the head of a queue that
\* still holds a SubscribeResult, pushed after the warning was returned.
C2_Witness ==
    /\ Returned
    /\ polled.src = "queue"
    /\ ret.kind = "Close"
    /\ queued_messages # <<>>
    /\ queued_messages[1].kind = "SubscribeResult"

\* C3: per connection id the client sees one announcement, first, at most
\* one Close, and nothing after the Close; a stream that has finished has
\* exactly one Close, returned or waiting in the queue.
C3_OneAnnouncementOneClose ==
    \A id \in ConnIds :
        /\ Announcements(id) <= 1
        /\ ~early[id]
        /\ ~late[id]
        /\ closes[id] + QueuedCloses(id) <= 1
        /\ incoming_streams[id].phase = "done"
            => closes[id] + QueuedCloses(id) = 1

\* C3 witness: a connection announced, then failed; its queued Close has
\* been returned and its stream yields nothing more.
C3_Witness ==
    \E id \in ConnIds :
        /\ Announcements(id) = 1
        /\ closes[id] = 1
        /\ incoming_streams[id].phase = "done"
        /\ Returned /\ ret = Close(id) /\ polled.src = "queue"

\* C4: the ids of successive announcements are strictly increasing.
C4_IdsStrictlyIncreasing ==
    \A i, j \in 1 .. Len(announced) : i < j => announced[i] < announced[j]

\* C4 witness: a second id was announced after the connection holding the
\* first one was closed and dropped.
C4_Witness ==
    /\ Len(announced) >= 2
    /\ closes[announced[1]] = 1
    /\ incoming_streams[announced[1]] = NoStream
    /\ Returned /\ ret.kind \in AnnouncementKinds

\* C5: under a version that does not match MODE_AGNOSTIC_HTTP_REQUESTS,
\* recv() returns no NewConnectionV2 and no chunked HTTP message, and none
\* waits in the queue: only NewConnectionV1, Data, Close, SubscribeResult
\* and log messages (or an error).
C5_LegacyShapesOnly ==
    ~Matches(protocol_version) =>
        /\ Returned =>
            ret.kind \in {"NewConnectionV1", "Data", "Close",
                          "SubscribeResult", "LogMessage", "Err"}
        /\ \A i \in 1 .. Len(queued_messages) :
            queued_messages[i].kind \in {"Close", "SubscribeResult"}
        /\ \A id \in ConnIds : incoming_streams[id].kind # "http"

\* C5 witness: an HTTP request arrived under a non-matching version and was
\* answered with a log message.
C5_Witness ==
    /\ ~Matches(protocol_version)
    /\ Returned
    /\ polled.item = "Http"
    /\ ret.kind = "LogMessage"

\* C6: once the iterator has yielded ConnectionId::MAX, a recv() that takes
\* traffic needing an id returns Err(ExhaustedConnectionId): nothing is
\* announced, no stream is inserted, the iterator stays exhausted.
C6_ExhaustedIds ==
    [][ ( /\ connection_ids_iter.exhausted
          /\ last' = "recv"
          /\ polled'.src = "traffic"
          /\ NeedsId(polled'.item, polled'.tls, protocol_version) )
        => /\ ret' = Failure("ExhaustedConnectionId")
           /\ announced' = announced
           /\ Keys(incoming_streams') \subseteq Keys(incoming_streams)
           /\ connection_ids_iter' = connection_ids_iter ]_vars

\* C6 witness: every id was announced and the next connection was refused.
C6_Witness ==
    /\ Returned
    /\ ret = Failure("ExhaustedConnectionId")
    /\ Len(announced) = MaxConnId + 1
    /\ connection_ids_iter.exhausted

\* C7: the connections in the map were announced under distinct ids; a
\* message made from a stream's event carries that stream's id; and a step
\* changes or removes at most one live stream: the one whose event recv()
\* took, or the one that was unsubscribed.
C7_ConnectionsIsolated ==
    /\ [](\A id \in Keys(incoming_streams) : Announcements(id) = 1)
    /\ [](Returned /\ polled.src = "stream" => ret.id = polled.id)
    /\ [][ LET changed == {id \in ConnIds :
                            /\ Live(incoming_streams, id)
                            /\ incoming_streams'[id] # incoming_streams[id]}
           IN  /\ Cardinality(changed) <= 1
               /\ (last' = "recv" /\ polled'.src = "stream")
                    => changed \subseteq {polled'.id} ]_vars

\* C7 witness: connection 1 was announced after connection 0 and has been
\* closed; connection 0 still delivers its data.
C7_Witness ==
    /\ Returned
    /\ ret = Data(0, "some")
    /\ closes[1] = 1
    /\ Live(incoming_streams, 0)

\* C16: once ConnectionUnsubscribe(c) has returned for a connection c that
\* was announced, no recv() returns an announcement, Data, chunked body or
\* Close carrying c.
C16_NothingAfterUnsubscribe ==
    Returned
        => ~( /\ ret.kind \in AnnouncementKinds \cup EventKinds
              /\ ret.id \in unsubscribed )

\* Ids the iterator has yielded so far.
Allocated(iter) == IF iter.exhausted THEN MaxConnId + 1 ELSE iter.start

\* The last recv() took a TLS connection under a version that cannot
\* represent it.
TookUnsupportedTls ==
    /\ Returned
    /\ polled.src = "traffic"
    /\ polled.item = "Tcp"
    /\ polled.tls
    /\ ~Matches(protocol_version)

\* C17 as stated: a TLS connection under a version without the unified
\* announcement makes recv() return a warning-level log message.
C17_TlsDroppedWithWarning ==
    TookUnsupportedTls => (ret.kind = "LogMessage" /\ ret.level = "warn")

\* C17 as amended: such a connection makes recv() return an error-level
\* log message naming no connection, and it is not mirrored: it draws no
\* id (the ids drawn are those of the announcements returned) and every
\* stream of incoming_streams belongs to an announced connection.
C17_TlsDroppedWithError ==
    /\ TookUnsupportedTls => ret = Log("error", NoId)
    /\ Allocated(connection_ids_iter) = Len(announced)
    /\ \A id \in Keys(incoming_streams) : Seen(id)

\* C17 witness: a TLS connection was taken under the old version and
\* answered with the error-level log message.
C17_Witness ==
    /\ TookUnsupportedTls
    /\ ret = Log("error", NoId)

\* C18: a recv() that takes a TLS connection or an HTTP request the
\* client's version cannot represent returns Ok with a LogMessage, and
\* leaves the multiplexer as it was: no id is drawn, nothing is queued or
\* announced, no stream is added, no live stream is touched, the mirrored
\* ports stay; so nothing later can refer to the dropped traffic.
C18_IncompatibleNeverFails ==
    [][ ( /\ last' = "recv"
          /\ polled'.src = "traffic"
          /\ polled'.item \in {"Tcp", "Http"}
          /\ ~NeedsId(polled'.item, polled'.tls, protocol_version) )
         => /\ ret'.kind = "LogMessage"
            /\ ret'.id = NoId
            /\ connection_ids_iter' = connection_ids_iter
            /\ queued_messages' = queued_messages
            /\ announced' = announced
            /\ mirror_handle' = mirror_handle
            /\ protocol_version' = protocol_version
            /\ \A id \in ConnIds :
                  /\ incoming_streams'[id] \in {incoming_streams[id], NoStream}
                  /\ Live(incoming_streams, id)
                        => incoming_streams'[id] = incoming_streams[id] ]_vars

\* C18 witness: an HTTP request was dropped with a log message while a
\* connection announced before is live and ids are left.
C18_Witness ==
    /\ Returned
    /\ polled.item = "Http"
    /\ ~Matches(protocol_version)
    /\ ret.kind = "LogMessage"
    /\ ~connection_ids_iter.exhausted
    /\ \E id \in ConnIds : Live(incoming_streams, id)

\* The HTTP requests whose stream has ended its body.
BodyEnded ==
    {id \in ConnIds : incoming_streams[id] = Stream("http", "half")}

\* C19 as stated: of the chunked messages of a request, one carries
\* is_last = TRUE once its body has ended, none follows it, and it is the
\* message that carries the final body frame.
C19_LastOnFinalFrame ==
    /\ \A id \in ConnIds : progress[id] # "broken"
    /\ \A id \in BodyEnded : progress[id] = "ended"
    /\ (Returned /\ ret.kind = "ChunkedRequestBodyV1" /\ ret.is_last)
            => ret.bytes = "some"

\* C19 as amended: at most one chunked message of a request carries
\* is_last = TRUE and no chunked message follows it; it has been returned
\* once the body of the request has ended, and not while the stream still
\* has frames to yield. A ChunkedRequestBodyV1 with is_last = TRUE
\* carries no frame: every body frame comes in a message with
\* is_last = FALSE, the final one too.
C19_LastAfterFinalFrame ==
    /\ \A id \in ConnIds : progress[id] # "broken"
    /\ \A id \in BodyEnded : progress[id] = "ended"
    /\ \A id \in ConnIds :
          incoming_streams[id] = Stream("http", "open") => progress[id] = "open"
    /\ (Returned /\ ret.kind = "ChunkedRequestBodyV1")
            => (ret.is_last <=> ret.bytes = "empty")

\* C19 witness: the stream of a request has signalled the end of its body
\* and recv() has returned the chunk with is_last = TRUE and no frame.
C19_Witness ==
    /\ Returned
    /\ polled.item = "NoMoreFrames"
    /\ ret = ChunkedBody(polled.id, "empty", TRUE)
    /\ progress[polled.id] = "ended"

\* C20: the messages of a connection are returned in the order its stream
\* produced the events. Each recv() that takes an item of a stream returns
\* the message of that very item (the Close of a failed connection being
\* queued behind the warning); what has been returned for a connection is
\* what its stream has produced: data or frames while it is open, then the
\* end marker, then one Close, which nothing follows; and a queued Close
\* belongs to a stream that can yield nothing more.
C20_OrderPreserved ==
    /\ \A id \in ConnIds :
          /\ progress[id] # "broken"
          /\ ~late[id] /\ ~early[id]
          /\ closes[id] + QueuedCloses(id) <= 1
          /\ incoming_streams[id].phase = "open"
                => (progress[id] = "open" /\ closes[id] + QueuedCloses(id) = 0)
          /\ incoming_streams[id].phase = "half"
                => (progress[id] = "ended" /\ closes[id] + QueuedCloses(id) = 0)
          /\ incoming_streams[id].phase = "done"
                => closes[id] + QueuedCloses(id) = 1
    /\ (Returned /\ polled.src = "stream")
          => /\ ret.id = polled.id
             /\ polled.item \in {"Data", "NoMoreData"}
                  => /\ ret.kind = "Data"
                     /\ ret.bytes = "empty" <=> polled.item = "NoMoreData"
             /\ polled.item \in {"Frame", "NoMoreFrames"}
                  => /\ ret.kind = "ChunkedRequestBodyV1"
                     /\ ret.is_last <=> polled.item = "NoMoreFrames"
             /\ polled.item = "FinishedOk" => ret.kind = "Close"
             /\ polled.item = "FinishedErr"
                  => /\ ret.kind = "LogMessage"
                     /\ QueuedCloses(polled.id) = 1

\* C20 witness: a connection has had its data, its end-of-data marker
\* and now its Close returned, while another connection is still open.
C20_Witness ==
    /\ Returned
    /\ polled.item = "FinishedOk"
    /\ ret = Close(polled.id)
    /\ progress[polled.id] = "ended"
    /\ incoming_streams[polled.id].kind = "tcp"
    /\ \E other \in ConnIds \ {polled.id} :
          /\ incoming_streams[other].phase = "open"
          /\ progress[other] = "open"

C22_UnsubscribeOnlyFutureRouting ==
    [][ last' = "PortUnsubscribe"
         => /\ ret' = Done
            /\ mirror_handle' \subseteq mirror_handle
            /\ queued_messages' = queued_messages
            /\ incoming_streams' = incoming_streams
            /\ connection_ids_iter' = connection_ids_iter
            /\ protocol_version' = protocol_version ]_vars

\* C22 witness: no port is mirrored any more, and a connection captured
\* while one was has just delivered data.
C22_Witness ==
    /\ Returned
    /\ polled.src = "stream"
    /\ ret.kind = "Data"
    /\ mirror_handle = {}

C24_FairPolling ==
    []<>(queued_messages = << >>) =>
        /\ \A id \in ConnIds :
              (ReadyItems(incoming_streams[id]) # {})
                ~> (Returned /\ polled.src = "stream" /\ polled.id = id)
        /\ (mirror_handle # {} /\ ~connection_ids_iter.exhausted)
                ~> (Returned /\ polled.src = "traffic"
                             /\ ret.kind \in AnnouncementKinds)

\* C24 witness: both sources are ready at once (a port is mirrored, ids are
\* left, a connection is open) and recv() has returned an event of the
\* connection.
C24_Witness ==
    /\ Returned
    /\ polled.src = "stream"
    /\ polled.item = "Data"
    /\ mirror_handle # {}
    /\ ~connection_ids_iter.exhausted

C26_EndOfDataKeepsConnection ==
    /\ (Returned /\ polled.item = "NoMoreData")
          => /\ ret = Data(polled.id, "empty")
             /\ incoming_streams[polled.id] = Stream("tcp", "half")
             /\ closes[polled.id] = 0
             /\ QueuedCloses(polled.id) = 0
    /\ \A id \in ConnIds :
          (closes[id] + QueuedCloses(id) > 0) => ~Live(incoming_streams, id)
    /\ (Returned /\ ret.kind = "Close" /\ polled.src = "stream")
          => polled.item = "FinishedOk"

\* C26 witness: recv() has just delivered the end of the data of a
\* connection that had sent data; its stream is still in the map.
C26_Witness ==
    /\ Returned
    /\ polled.item = "NoMoreData"
    /\ ret.kind = "Data"
    /\ ret.bytes = "empty"
    /\ progress[polled.id] = "ended"
    /\ polled.id \in Keys(incoming_streams)

\* C27: every ChunkedRequestStartV2 and ChunkedRequestBodyV1 that recv()
\* returns carries request_id 0; a body chunk carries the id of the HTTP
\* stream it was read from, a request start the id it inserts the stream
\* under; and no id is announced twice, so two requests never share one.
C27_RequestIdSentinel ==
    /\ (Returned /\ ret.kind \in ChunkedKinds)
          => /\ ret.request_id = 0
             /\ ret.id \in ConnIds
             /\ incoming_streams[ret.id].kind = "http"
    /\ (Returned /\ ret.kind = "ChunkedRequestBodyV1")
          => /\ polled.src = "stream"
             /\ ret.id = polled.id
    /\ (Returned /\ ret.kind = "ChunkedRequestStartV2")
          => /\ polled.src = "traffic"
             /\ polled.item = "Http"
             /\ announced[Len(announced)] = ret.id
    /\ \A i, j \in 1 .. Len(announced) :
          i # j => announced[i] # announced[j]

\* C27 witness: a body chunk of the second HTTP request is returned while
\* the first request is still in the map.
C27_Witness ==
    /\ Returned
    /\ ret.kind = "ChunkedRequestBodyV1"
    /\ ret.bytes = "some"
    /\ ret.id = 1
    /\ incoming_streams[0].kind = "http"

\* C29: queued_messages changes in two ways only: a message is appended at
\* its back, or a recv() removes its head and returns it. A recv() that
\* finds the queue non-empty returns its head. So every message pushed is
\* returned once, in the order of the pushes.
C29_QueueFifoLossless ==
    /\ [][ queued_messages' # queued_messages
            => \/ \E message \in {SubscribeResultOk(port) : port \in Ports}
                                  \cup {Close(id) : id \in ConnIds} :
                     /\ queued_messages' = Append(queued_messages, message)
                     /\ ~(last' = "recv" /\ polled'.src = "queue")
               \/ /\ queued_messages # << >>
                  /\ queued_messages' = Tail(queued_messages)
                  /\ last' = "recv"
                  /\ polled'.src = "queue"
                  /\ ret' = Head(queued_messages) ]_vars
    /\ [][ (queued_messages # << >> /\ last' \in {"recv", "pending"})
            => /\ last' = "recv"
               /\ polled'.src = "queue"
               /\ ret' = Head(queued_messages)
               /\ queued_messages' = Tail(queued_messages) ]_vars

\* C29 witness: a Close and then a SubscribeResult were pushed; recv() has
\* returned the Close and the SubscribeResult is now the head.
C29_Witness ==
    /\ Returned
    /\ polled.src = "queue"
    /\ ret.kind = "Close"
    /\ queued_messages = << SubscribeResultOk(80) >>

\* C32: the k-th announcement returned carries id k-1, and the ids the
\* iterator has yielded are those of the announcements returned: traffic
\* that is dropped because the client's version cannot represent it is
\* answered with a log message that names no connection, draws no id and
\* adds no stream.
C32_IdsWithoutGaps ==
    /\ \A k \in 1 .. Len(announced) : announced[k] = k - 1
    /\ Allocated(connection_ids_iter) = Len(announced)
    /\ Keys(incoming_streams) \subseteq 0 .. Len(announced) - 1
    /\ ( /\ Returned
          /\ polled.src = "traffic"
          /\ polled.item \in {"Tcp", "Http"}
          /\ ~NeedsId(polled.item, polled.tls, protocol_version) )
          => /\ ret = Log("error", NoId)
             /\ queued_messages = << >>

\* C32 witness: after one announcement an HTTP request was dropped under an
\* old version; the next id is still 1.
C32_Witness ==
    /\ ~Matches(protocol_version)
    /\ Returned
    /\ polled.src = "traffic"
    /\ polled.item = "Http"
    /\ ret.kind = "LogMessage"
    /\ announced = << 0 >>
    /\ connection_ids_iter = [start |-> 1, exhausted |-> FALSE]

\* Every key of incoming_streams is an id the iterator has yielded, its
\* announcement has been returned, once; and the recv() that returns an
\* announcement has inserted the stream under the id announced.
KeysAreAnnounced ==
    /\ \A id \in Keys(incoming_streams) :
          /\ id < Allocated(connection_ids_iter)
          /\ Announcements(id) = 1
    /\ (Returned /\ ret.kind \in AnnouncementKinds)
          => /\ ret.id \in Keys(incoming_streams)
             /\ announced[Len(announced)] = ret.id

\* C33 as stated: besides, an id whose stream has yielded Finished is no
\* longer a key of incoming_streams.
C33_FinishedStreamGone ==
    /\ KeysAreAnnounced
    /\ \A id \in Keys(incoming_streams) : incoming_streams[id].phase # "done"

\* C33, amended: besides, a stream that has yielded Finished is left in
\* the map until a later poll of the map (or a ConnectionUnsubscribe)
\* removes it; until then it yields nothing, it is the stream of a
\* connection whose Close has been returned, queued or is owed, and a
\* poll of the map that finds nothing ready leaves no such stream behind.
C33_KeysOfIncomingStreams ==
    /\ KeysAreAnnounced
    /\ \A id \in Keys(incoming_streams) :
          incoming_streams[id].phase = "done"
            => /\ ReadyItems(incoming_streams[id]) = {}
               /\ closes[id] + QueuedCloses(id) >= 1 \/ owed = id
               /\ last # "pending"

\* C33 witness: recv() has returned the Close of a finished stream and the
\* id is still a key of incoming_streams.
C33_Witness ==
    /\ Returned
    /\ polled.src = "stream"
    /\ polled.item = "FinishedOk"
    /\ ret = Close(polled.id)
    /\ polled.id \in Keys(incoming_streams)
    /\ incoming_streams[polled.id].phase = "done"

\* C34: a PortSubscribe whose mirror(port) fails returns that error and
\* leaves the multiplexer as it was: queue, streams, id iterator, mirrored
\* ports and protocol version. A SubscribeResult enters the queue only in
\* a PortSubscribe that returns Ok, and recv() announces traffic only of a
\* port that is mirrored, so nothing about the port follows.
C34_FailedSubscribeChangesNothing ==
    /\ [][ (last' = "PortSubscribe" /\ ret' # Done)
            => /\ ret' = Failure("Mirror")
               /\ queued_messages' = queued_messages
               /\ incoming_streams' = incoming_streams
               /\ connection_ids_iter' = connection_ids_iter
               /\ mirror_handle' = mirror_handle
               /\ protocol_version' = protocol_version ]_vars
    /\ [][ Subscribed(queued_messages') > Subscribed(queued_messages)
            => last' = "PortSubscribe" /\ ret' = Done ]_vars
    /\ [](Returned /\ polled.src = "traffic" /\ polled.item \in {"Tcp", "Http"}
            => polled.port \in mirror_handle)

\* C34 witness: a PortSubscribe has failed with no port mirrored, an empty
\* queue and no connection.
C34_Witness ==
    /\ last = "PortSubscribe"
    /\ ret = Failure("Mirror")
    /\ mirror_handle = {}
    /\ queued_messages = << >>
    /\ Keys(incoming_streams) = {}

----------------------------------------------------------------------------
(* Properties of the NAT-rule backend (SpecIpt).                           *)

\* Redirect rules for `port` in the table of the redirector's family.
RulesFor(table, port) == table[ipv6][port]

\* The step is the call `name` on a redirector that holds its context.
Calls(name) == ipt_op'.name = name /\ iptables = "Some"

C11_CleanupOneShot ==
    [][ (was_cleaned /\ ipt_op'.name = "cleanup")
         => /\ ipt_ret' = "Ok"
            /\ ipt_errors' = {}
            /\ rules' = rules
            /\ exclusions' = exclusions ]_vars

\* C11 as amended: a cleanup() called when no context has been created
\* since the previous cleanup() (above all, the call right after a
\* cleanup(), whether that one returned Ok or Err) operates on no rule and
\* no exclusion, fails in no kernel operation, and returns Ok.
C11_CleanupWithoutContext ==
    [][ ( /\ ipt_op'.name = "cleanup"
          /\ \/ ipt_op.name = "cleanup"
             \/ (was_cleaned /\ iptables = "None") )
         => /\ ipt_ret' = "Ok"
            /\ ipt_errors' = {}
            /\ rules' = rules
            /\ exclusions' = exclusions
            /\ iptables' = "None" ]_vars

\* C11 witness: a cleanup() that failed on the redirect rules, which stay
\* in the table, is followed by a cleanup() that returns Ok.
C11_Witness ==
    /\ ipt_prev = IptCall("cleanup", NoPort, "Err")
    /\ ipt_op = IptOp("cleanup", NoPort)
    /\ ipt_ret = "Ok"
    /\ \E p \in Ports : RulesFor(rules, p) > 0

\* C12 as stated: once cleanup() has run, no initialize() and no
\* add_redirection() creates a context or installs a rule.
C12_CleanedIsTerminal ==
    [][ (was_cleaned /\ ipt_op'.name \in {"initialize", "add_redirection"})
         => /\ iptables' = "None"
            /\ rules' = rules
            /\ exclusions' = exclusions ]_vars

\* C12 as amended: cleanup() leaves the redirector without a context, as
\* before its initialization, and that state is not terminal. In it
\* remove_redirection, and initialize() with no mesh exclusion configured,
\* change nothing and return Ok; add_redirection(p), and initialize() with
\* a mesh exclusion configured, create a context again when they return
\* Ok, and add_redirection(p) installs the rule for p.
C12_CleanedIsUninitialized ==
    /\ [](ipt_op.name = "cleanup" => iptables = "None")
    /\ [][ ( /\ was_cleaned /\ iptables = "None"
             /\ \/ ipt_op'.name = "remove_redirection"
                \/ ipt_op'.name = "initialize" /\ with_mesh_exclusion = NoPort )
            => /\ ipt_ret' = "Ok"
               /\ iptables' = "None"
               /\ rules' = rules
               /\ exclusions' = exclusions ]_vars
    /\ [][ ( /\ was_cleaned /\ iptables = "None"
             /\ ipt_ret' = "Ok"
             /\ \/ ipt_op'.name = "add_redirection"
                \/ ipt_op'.name = "initialize" /\ with_mesh_exclusion # NoPort )
            => /\ iptables' = "Some"
               /\ ipt_op'.name = "add_redirection"
                    => RulesFor(rules', ipt_op'.port) = 1 ]_vars

\* C12 witness: right after a cleanup() that returned Ok, add_redirection(p)
\* has returned Ok, the context exists and the rule for p is installed.
C12_Witness ==
    \E p \in Ports :
        /\ ipt_prev = IptCall("cleanup", NoPort, "Ok")
        /\ ipt_op = IptOp("add_redirection", p)
        /\ ipt_ret = "Ok"
        /\ iptables = "Some"
        /\ RulesFor(rules, p) = 1

C14_InitializeLazyIdempotent ==
    /\ [][ ( /\ ipt_op'.name = "initialize"
             /\ (with_mesh_exclusion = NoPort \/ iptables = "Some") )
            => /\ ipt_ret' = "Ok"
               /\ ipt_errors' = {}
               /\ iptables' = iptables
               /\ rules' = rules
               /\ exclusions' = exclusions ]_vars
    /\ [][ ( /\ ipt_op'.name = "initialize"
             /\ with_mesh_exclusion # NoPort
             /\ iptables = "None" )
            => /\ rules' = rules
               /\ IF ipt_ret' = "Err"
                  THEN iptables' = "None" /\ exclusions' = exclusions
                  ELSE /\ iptables' = "Some"
                       /\ exclusions'[ipv6] =
                            IF "exclusion" \in ipt_errors'
                            THEN exclusions[ipv6]
                            ELSE exclusions[ipv6] + 1 ]_vars
    /\ [][ ( /\ ipt_op.name = "initialize" /\ ipt_ret = "Ok"
             /\ ipt_op'.name = "initialize" )
            => /\ ipt_ret' = "Ok"
               /\ iptables' = iptables
               /\ rules' = rules
               /\ exclusions' = exclusions ]_vars

\* C14 witness: with a mesh exclusion configured, initialize() has returned
\* Ok twice in a row; the context exists and there is one exclusion rule.
C14_Witness ==
    /\ ipt_prev = IptCall("initialize", NoPort, "Ok")
    /\ ipt_op = IptOp("initialize", NoPort)
    /\ ipt_ret = "Ok"
    /\ with_mesh_exclusion # NoPort
    /\ iptables = "Some"
    /\ exclusions[ipv6] = 1
    /\ ~ipt_failed

\* The call that has just returned is an add_redirection in which creating
\* the context failed.
CreateFailedInAdd ==
    ipt_op.name = "add_redirection" /\ "create" \in ipt_errors

\* C35: an add_redirection(p) in which creating the context fails returns
\* Err, installs no rule and leaves the redirector without a context. A
\* remove_redirection or cleanup that follows changes nothing and returns
\* Ok; an add_redirection that follows runs init_iptables again: it fails
\* in creating the context once more, or it stores the context and, when
\* it returns Ok, has installed the rule.
C35_FailedCreateLeavesUninitialized ==
    /\ [][ CreateFailedInAdd'
            => /\ ipt_ret' = "Err"
               /\ ipt_errors' = {"create"}
               /\ iptables = "None"
               /\ iptables' = "None"
               /\ rules' = rules
               /\ exclusions' = exclusions ]_vars
    /\ [][ ( /\ CreateFailedInAdd
             /\ ipt_op'.name \in {"remove_redirection", "cleanup"} )
            => /\ ipt_ret' = "Ok"
               /\ ipt_errors' = {}
               /\ iptables' = "None"
               /\ rules' = rules
               /\ exclusions' = exclusions ]_vars
    /\ [][ (CreateFailedInAdd /\ ipt_op'.name = "add_redirection")
            => \/ CreateFailedInAdd' /\ iptables' = "None"
               \/ /\ iptables' = "Some"
                  /\ ipt_ret' = "Ok"
                        => RulesFor(rules', ipt_op'.port) = 1 ]_vars

\* C35 witness: on a redirector never cleaned up, add_redirection(p) failed
\* in creating the context, and the add_redirection(p) after it has run
\* init_iptables again and failed in it again.
C35_Witness ==
    \E p \in Ports :
        /\ ipt_prev = IptCall("add_redirection", p, "Err")
        /\ ipt_op = IptOp("add_redirection", p)
        /\ CreateFailedInAdd
        /\ ipt_ret = "Err"
        /\ iptables = "None"
        /\ RulesFor(rules, p) = 0
        /\ ~was_cleaned

\* C36: remove_redirection(p) on a redirector without a context (never
\* created, or taken by cleanup) returns Ok, fails in no kernel operation,
\* creates no context and changes no rule, whether or not the table holds
\* a rule for p.
C36_RemoveWithoutContext ==
    [][ (ipt_op'.name = "remove_redirection" /\ iptables = "None")
         => /\ ipt_ret' = "Ok"
            /\ ipt_errors' = {}
            /\ iptables' = "None"
            /\ rules' = rules
            /\ exclusions' = exclusions ]_vars

\* C36 witness: a cleanup() that failed has left the rule for p in the
\* table, and remove_redirection(p) has returned Ok with the rule still
\* there and no context.
C36_Witness ==
    \E p \in Ports :
        /\ ipt_prev = IptCall("cleanup", NoPort, "Err")
        /\ ipt_op = IptOp("remove_redirection", p)
        /\ ipt_ret = "Ok"
        /\ iptables = "None"
        /\ RulesFor(rules, p) = 1

\* C38: when adding the exclusion rule fails in init_iptables, the call
\* that ran it stores the context all the same and adds no exclusion
\* rule. initialize() returns Ok; add_redirection(p) goes on to the
\* redirect rule and returns what adding that rule returns.
C38_ExclusionFailureOnlyLogged ==
    [][ ( /\ ipt_op'.name \in {"initialize", "add_redirection"}
          /\ "exclusion" \in ipt_errors' )
         => /\ with_mesh_exclusion # NoPort
            /\ iptables = "None"
            /\ iptables' = "Some"
            /\ exclusions' = exclusions
            /\ IF ipt_op'.name = "initialize"
               THEN ipt_ret' = "Ok" /\ rules' = rules
               ELSE /\ ipt_ret' = "Err" <=> "rule" \in ipt_errors'
                    /\ ipt_ret' = "Ok"
                          => RulesFor(rules', ipt_op'.port) = 1 ]_vars

\* C38 witness: the first call, add_redirection(p), failed to add the
\* exclusion rule and has returned Ok with the context stored and the rule
\* for p installed.
C38_Witness ==
    \E p \in Ports :
        /\ ipt_prev.name = "create"
        /\ ipt_op = IptOp("add_redirection", p)
        /\ ipt_errors = {"exclusion"}
        /\ ipt_ret = "Ok"
        /\ iptables = "Some"
        /\ exclusions[ipv6] = 0
        /\ RulesFor(rules, p) = 1

----------------------------------------------------------------------------
(* Properties of next_connection (SpecAccept).                             *)

\* C15: next_connection() returns Ok only with a connection whose original
\* destination resolved; the sockets it dropped on the way are exactly
\* the connections received just before the returned one, none of them
\* resolvable; it returns Err only for a failed accept, never for a failed
\* resolution; and a turn that drops a socket leaves the call accepting.
C15_UnresolvableDropped ==
    /\ [](next_ret.kind = "Ok"
            => /\ next_ret.destination # NoPort
               /\ {socket.source : socket \in next_dropped} =
                    (next_ret.source - Cardinality(next_dropped))
                        .. (next_ret.source - 1))
    /\ [](\A socket \in next_dropped : socket.destination = NoPort)
    /\ [](next_ret.kind = "Err" => next_ret.error = "accept")
    /\ [][ (listener # << >> /\ listener' = Tail(listener))
            => IF Head(listener).destination = NoPort
               THEN /\ next_pc' = "accepting"
                    /\ next_ret' = NoResult
                    /\ Head(listener) \in next_dropped'
               ELSE /\ next_pc' = "idle"
                    /\ next_ret' = Redirected(Head(listener).source,
                                              Head(listener).destination) ]_vars

\* C15 witness: next_connection() has returned a resolved connection after
\* dropping two unresolvable ones.
C15_Witness ==
    /\ next_pc = "idle"
    /\ next_ret.kind = "Ok"
    /\ next_ret.destination \in Ports
    /\ Cardinality(next_dropped) = 2

----------------------------------------------------------------------------
(* Properties of start_internal (SpecExec).                                *)

\* create_and_connect has succeeded and the block of the composite filter
\* has run.
GateDone ==
    /\ exec_pc \notin {"start", "connected"}
    /\ exec_ret.kind # "AgentConnection"

\* The agent's protocol version is known and matches
\* HTTP_COMPOSITE_FILTER_VERSION.
KnownAndMatches ==
    \/ /\ connect_info.kind = "Operator"
       /\ connect_info.version # NoVersion
       /\ CompositeMatches(connect_info.version)
    \/ /\ connect_info.kind = "DirectKubernetes"
       /\ agent_reply.kind = "version"
       /\ CompositeMatches(agent_reply.version)

\* GetEnvVarsRequest has been sent to the agent.
EnvRequested ==
    \E i \in 1 .. Len(connection) : connection[i] = "GetEnvVarsRequest"

\* C28 as stated: with a composite filter, unless the version is known and
\* matches, start_internal fails with ConfigError::Conflict, before the
\* remote env is asked for and before the proxy is spawned.
C28_AlwaysConflict ==
    (config.is_composite /\ GateDone /\ ~KnownAndMatches)
        => /\ exec_pc = "failed"
           /\ exec_ret = ExecErr("Conflict", "http_filter")
           /\ ~EnvRequested

\* C28, amended: with a composite filter, once connected, unless the
\* version is known and matches, start_internal fails before the remote
\* env is asked for and before the proxy is spawned: with
\* ConfigError::Conflict, or, in a direct session whose version request
\* failed, with CliError::InitialAgentCommFailed. An operator session
\* without a reported version fails with the Conflict. The Conflict of the
\* filter is returned in no other case.
C28_CompositeFilterGate ==
    /\ (config.is_composite /\ GateDone /\ ~KnownAndMatches)
          => /\ exec_pc = "failed"
             /\ ~EnvRequested
             /\ IF connect_info.kind = "DirectKubernetes"
                   /\ agent_reply.kind # "version"
                THEN exec_ret = ExecErr("InitialAgentCommFailed", "version")
                ELSE exec_ret = ExecErr("Conflict", "http_filter")
    /\ (exec_ret.about \in {"http_filter", "version"})
          => /\ config.is_composite
             /\ ~KnownAndMatches
             /\ exec_pc = "failed"
             /\ ~EnvRequested

\* C28 witness: an operator session that reported no version is rejected
\* with the Conflict, nothing having been sent to the agent.
C28_Witness ==
    /\ config.is_composite
    /\ connect_info = ConnectInfo("Operator", NoVersion)
    /\ exec_pc = "failed"
    /\ exec_ret = ExecErr("Conflict", "http_filter")
    /\ connection = << >>

----------------------------------------------------------------------------
(* Properties of LayerConfig::encode and decode (SpecCodec).               *)

----------------------------------------------------------------------------
(* Properties of get_remote_env (SpecRemoteEnv).                           *)

\* The received messages before the last one.
Skipped == SubSeq(env_received, 1, Len(env_received) - 1)

\* The outcome the claim gives for the message that ends the wait.
DecidedBy(message) ==
    IF message.kind = "GetEnvVarsResponseOk" THEN RemoteEnvOk(message.env)
    ELSE [InitialAgentCommFailed("") EXCEPT !.about = env_ret.about]

\* C39: get_remote_env sends one GetEnvVarsRequest, and nothing else; when
\* the send fails (the channel is closed) it returns InitialAgentCommFailed
\* having received nothing. While every message received is a LogMessage
\* it has not returned. When it has returned after receiving, every message
\* but the last is a LogMessage, the last is none, and the outcome is
\* Ok(env) for GetEnvVarsResponse(Ok(env)) and InitialAgentCommFailed for
\* GetEnvVarsResponse(Err), Close, another message and a closed channel.
C39_FirstNonLogDecides ==
    /\ env_sent \in {<< >>, << "GetEnvVarsRequest" >>}
    /\ env_pc = "called" => env_sent = << >> /\ env_received = << >>
    /\ env_pc = "receiving"
         => /\ env_sent = << "GetEnvVarsRequest" >>
            /\ env_ret = NoRemoteEnv
            /\ \A i \in 1 .. Len(env_received) :
                  env_received[i].kind = "LogMessage"
    /\ (env_pc = "returned" /\ env_received = << >>)
         => /\ env_sent = << >>
            /\ env_ret.kind = "InitialAgentCommFailed"
    /\ (env_pc = "returned" /\ env_received # << >>)
         => /\ env_sent = << "GetEnvVarsRequest" >>
            /\ \A i \in 1 .. Len(Skipped) : Skipped[i].kind = "LogMessage"
            /\ env_received[Len(env_received)].kind # "LogMessage"
            /\ env_ret.kind \in {"Ok", "InitialAgentCommFailed"}
            /\ env_ret = DecidedBy(env_received[Len(env_received)])

\* C39 witness: after as many LogMessages as the agent sends, of more
\* than one level, the answer has come and its env has been returned.
C39_Witness ==
    /\ env_pc = "returned"
    /\ Len(env_received) = MaxLogMessages + 1
    /\ env_received[1].level # env_received[2].level
    /\ env_ret = RemoteEnvOk("PATH")

----------------------------------------------------------------------------
(* Properties of the Sniffer variant (SpecSniffer).                        *)

\* The slot as a sequence: the message waiting in it, if any.
Waiting == IF queued_message = NoMessage THEN << >> ELSE << queued_message >>

\* C37: a recv() polls the api only with the slot empty. A message the api
\* yields with a log waits in the slot while that recv() returns the log,
\* and the recv() after it returns the message without polling the api.
\* The messages returned, followed by the one waiting, are the messages the
\* api has yielded, in the order it yielded them: none is overwritten,
\* lost, duplicated or reordered.
C37_LogThenMessage ==
    /\ sniffer_polled.api => sniffer_polled.queued = NoMessage
    /\ queued_message # NoMessage
         => /\ sniffer_polled.api
            /\ sniffer_ret = SnifferRet("LogMessage", NoMessage)
            /\ queued_message = api[Len(api)]
    /\ sniffer_polled.queued # NoMessage
         => /\ ~sniffer_polled.api
            /\ sniffer_ret = SnifferRet("Tcp", sniffer_polled.queued)
            /\ queued_message = NoMessage
    /\ sniffer_out \o Waiting = api
    /\ \A k \in 1 .. Len(api) : api[k].seq = k

\* C37 witness: the last message the api yields came with a log, and the
\* recv() after the log has returned it, after the messages before it.
C37_Witness ==
    /\ Len(api) = MaxSniffed
    /\ sniffer_polled = [api |-> FALSE, queued |-> api[Len(api)]]
    /\ sniffer_ret = SnifferRet("Tcp", api[Len(api)])
    /\ sniffer_out = api

----------------------------------------------------------------------------
(* Properties of DirEntryInternal::get_d_reclen64 (SpecDirEntry).          *)

\* The smallest multiple of 8 that is greater than or equal to n.
NextMultipleOf8(n) == ((n + 7) \div 8) * 8

\* C31 as stated: round_up_to_next_multiple_of_8(x) returns the smallest multiple of
\* 8 that is greater than or equal to x for every u16 x, and
\* get_d_reclen64 returns that rounding of 20 + the length of the name for
\* every length of the name.
C31_RoundsUpEveryInput ==
    /\ ( /\ dirent_call.function = "round_up_to_next_multiple_of_8"
         /\ dirent_ret # NoReturn )
         => dirent_ret = Returns(NextMultipleOf8(dirent_call.arg))
    /\ ( /\ dirent_call.function = "get_d_reclen64"
         /\ dirent_ret # NoReturn )
         => dirent_ret = Returns(NextMultipleOf8(FixedSize + dirent_call.arg))

\* The largest u16 whose rounding up is a u16.
LargestRounded == U16 - 8

\* The call that has returned or panicked takes an argument whose
\* rounding is a u16.
InRange ==
    IF dirent_call.function = "get_d_reclen64"
    THEN dirent_call.arg <= LargestRounded - FixedSize
    ELSE dirent_call.arg <= LargestRounded

\* What the claim gives for the call.
Rounding ==
    IF dirent_call.function = "get_d_reclen64"
    THEN NextMultipleOf8(FixedSize + dirent_call.arg)
    ELSE NextMultipleOf8(dirent_call.arg)

\* C31, amended: the two functions return that rounding for every
\* argument up to the largest whose rounding is a u16: x <= 65528, a name
\* of at most 65508 bytes. Beyond it no call returns the rounding: an
\* addition overflows, which panics in a build with overflow checks and
\* wraps in a build without, or the length is truncated by the cast; what
\* is returned is a multiple of 8 all the same.
C31_RoundsUpWhileInRange ==
    dirent_ret # NoReturn
      => /\ InRange => dirent_ret = Returns(Rounding)
         /\ ~InRange => dirent_ret # Returns(Rounding)
         /\ dirent_ret.kind = "Ok"
              => dirent_ret.value % 8 = 0 /\ dirent_ret.value < U16
         /\ dirent_ret = Panics => overflow_checks

\* C31 witness: get_d_reclen64 of the longest name in range has returned
\* the largest multiple of 8 of u16.
C31_Witness ==
    /\ dirent_call = DirentCall("get_d_reclen64", LargestRounded - FixedSize)
    /\ dirent_ret = Returns(LargestRounded)
    /\ overflow_checks

====
